---------------------------- MODULE Spec2Model ----------------------------
(***************************************************************************)
(* A model of the alignment calculator (alignment_calculation/calculator.py *)
(* and alignment_results.py).                                               *)
(*                                                                          *)
(* Tables (pandas DataFrames) are sequences of records, one record per row. *)
(* A numeric cell is a pair <<n, d>>: the rational n/d in lowest terms when *)
(* d > 0, and a float special when d = 0 (<<0,0>> is NaN, <<1,0>> is +inf,  *)
(* <<-1,0>> is -inf).  Arithmetic on cells follows the float rules pandas   *)
(* uses (NaN propagates, x/0 is +/-inf, 0/0 is NaN); rounding and signed    *)
(* zeros are not modelled.  A missing string cell is "nan", a missing year  *)
(* is 0.                                                                    *)
(***************************************************************************)
EXTENDS Integers, Sequences, FiniteSets, TLC

VARIABLES
    pc,            \* position of the modelled call
    settings,      \* self._settings
    call,          \* the parameters of the modelled call
    data,          \* the table handed to the modelled operation
    year_results,  \* _calculate_alignment_instance: its working table
    results,       \* the table the modelled operation returns
    grouped,       \* the table group_scores returns
    pacta_company_indicators,  \* self._pacta_company_indicators, per year
    pacta_ownership,           \* self._pacta_ownership, per year
    loans,                     \* self._loans
    regions,                   \* self._regions
    df_pacta,                  \* self._df_pacta, per year
    parameters_file            \* the user's settings file ~/.pacta/parameters.yaml

\* the attributes of the calculator, and the settings file it reads
attributes ==
    <<pacta_company_indicators, pacta_ownership, loans, regions, df_pacta,
      parameters_file>>

vars == <<pc, settings, call, data, year_results, results, grouped,
          attributes>>

-----------------------------------------------------------------------------
(* Numeric cells *)

NaN == <<0, 0>>
PosInf == <<1, 0>>
NegInf == <<-1, 0>>
Zero == <<0, 1>>

Abs(x) == IF x < 0 THEN -x ELSE x

Sign(x) == IF x > 0 THEN 1 ELSE IF x < 0 THEN -1 ELSE 0

RECURSIVE Gcd(_, _)
Gcd(a, b) == IF b = 0 THEN a ELSE Gcd(b, a % b)

\* the cell n/d, d any integer: lowest terms, d = 0 gives a special
Mk(n, d) ==
    IF d = 0 THEN <<Sign(n), 0>>
    ELSE LET s == IF d < 0 THEN -1 ELSE 1
             g == Gcd(Abs(n), Abs(d))
         IN <<(s * n) \div g, (s * d) \div g>>

Int2Num(i) == <<i, 1>>

IsNaN(a) == a = NaN
IsInf(a) == a[2] = 0 /\ a[1] # 0
IsFinite(a) == a[2] > 0

FNeg(a) == <<-a[1], a[2]>>

FAdd(a, b) ==
    IF IsNaN(a) \/ IsNaN(b) THEN NaN
    ELSE IF IsInf(a) /\ IsInf(b) THEN (IF a = b THEN a ELSE NaN)
    ELSE IF IsInf(a) THEN a
    ELSE IF IsInf(b) THEN b
    ELSE LET g == Gcd(a[2], b[2])
         IN Mk(a[1] * (b[2] \div g) + b[1] * (a[2] \div g),
               a[2] * (b[2] \div g))

FSub(a, b) == FAdd(a, FNeg(b))

FMul(a, b) ==
    IF IsNaN(a) \/ IsNaN(b) THEN NaN
    ELSE IF IsInf(a) \/ IsInf(b) THEN <<Sign(a[1]) * Sign(b[1]), 0>>
    ELSE Mk(a[1] * b[1], a[2] * b[2])

FDiv(a, b) ==
    IF IsNaN(a) \/ IsNaN(b) THEN NaN
    ELSE IF IsInf(a) /\ IsInf(b) THEN NaN
    ELSE IF IsInf(a) THEN <<a[1] * (IF b[1] < 0 THEN -1 ELSE 1), 0>>
    ELSE IF IsInf(b) THEN Zero
    ELSE LET g == Gcd(a[2], b[2])
             h == IF a[1] = 0 \/ b[1] = 0 THEN 1 ELSE Gcd(Abs(a[1]), Abs(b[1]))
         IN Mk((a[1] \div h) * (b[2] \div g), (a[2] \div g) * (b[1] \div h))

\* a < b, false when either is NaN
FLt(a, b) ==
    /\ ~IsNaN(a)
    /\ ~IsNaN(b)
    /\ IF a[2] = 0 /\ b[2] = 0 THEN a[1] < b[1]
       ELSE a[1] * b[2] < b[1] * a[2]

FLe(a, b) == ~IsNaN(a) /\ ~IsNaN(b) /\ (a = b \/ FLt(a, b))

\* Series.sum(): missing values are skipped, the empty sum is 0
RECURSIVE SumSkipNa(_)
SumSkipNa(s) ==
    IF s = <<>> THEN Zero
    ELSE IF IsNaN(Head(s)) THEN SumSkipNa(Tail(s))
    ELSE FAdd(Head(s), SumSkipNa(Tail(s)))

\* a clip that forgets the upper bound
ClipLowerOnly(x, lower, upper) ==
    IF IsNaN(x) THEN x
    ELSE IF FLt(x, lower) THEN lower
    ELSE x

\* a clip that leaves the infinities alone
ClipFiniteOnly(x, lower, upper) ==
    IF ~IsFinite(x) THEN x
    ELSE IF FLt(x, lower) THEN lower
    ELSE IF FLt(upper, x) THEN upper
    ELSE x

\* Series.clip(lower, upper): a missing value stays missing
Clip(x, lower, upper) ==
    IF IsNaN(x) THEN x
    ELSE IF FLt(x, lower) THEN lower
    ELSE IF FLt(upper, x) THEN upper
    ELSE x

-----------------------------------------------------------------------------
(* Tables *)

NoYear == 0

IntCols ==
    {"year", "end_year", "portfolio_date", "company_id", "loan_id",
     "scenario_year", "data_year"}

IsNaCell(c, v) == IF c \in IntCols THEN v = NoYear ELSE v = "nan"

Project(row, cols) == [c \in cols |-> row[c]]

HasNaKey(row, cols) == \E c \in cols : IsNaCell(c, row[c])

Column(tbl, col) == [i \in 1..Len(tbl) |-> tbl[i][col]]

RECURSIVE SetToSeq(_)
SetToSeq(S) ==
    IF S = {} THEN <<>>
    ELSE LET x == CHOOSE y \in S : TRUE IN <<x>> \o SetToSeq(S \ {x})

\* the keys DataFrame.groupby(cols, dropna=dropna) makes groups of
GroupKeys(tbl, cols, dropna) ==
    {Project(tbl[i], cols) :
        i \in {j \in 1..Len(tbl) : ~(dropna /\ HasNaKey(tbl[j], cols))}}

GroupRows(tbl, cols, key) == SelectSeq(tbl, LAMBDA r : Project(r, cols) = key)

\* DataFrame.groupby(cols, as_index=False, dropna=dropna)[sumcols].sum()
GroupBySum(tbl, cols, sumcols, dropna) ==
    LET keys == SetToSeq(GroupKeys(tbl, cols, dropna))
    IN [i \in 1..Len(keys) |->
            keys[i] @@ [c \in sumcols |->
                SumSkipNa(Column(GroupRows(tbl, cols, keys[i]), c))]]

\* GroupBy[col].first(): the first value of the group that is not missing
RECURSIVE FirstNotNa(_)
FirstNotNa(s) ==
    IF s = <<>> THEN NaN
    ELSE IF IsNaN(Head(s)) THEN FirstNotNa(Tail(s))
    ELSE Head(s)

-----------------------------------------------------------------------------
(* Settings: self._settings, as AlignmentCalculatorConfig().load_settings()  *)
(* returns them.  Every technology of a sector is classified in at most one  *)
(* of build_out, phase_out and other.                                        *)

Horizon == 5

SectoralApproachA ==
    [power |-> [approach |-> "tms", sector |-> <<"renewablescap">>,
                technology |-> <<"coalcap", "nuclearcap">>,
                build_out |-> <<"renewablescap">>, phase_out |-> <<"coalcap">>,
                other |-> <<"nuclearcap">>, regional |-> TRUE, active |-> TRUE],
     steel |-> [approach |-> "sda", sector |-> <<>>, technology |-> <<>>,
                build_out |-> <<>>, phase_out |-> <<>>,
                other |-> <<"steel">>, regional |-> FALSE, active |-> TRUE]]

SectoralApproachB ==
    [power |-> [approach |-> "tms", sector |-> <<"renewablescap">>,
                technology |-> <<"coalcap", "nuclearcap">>,
                build_out |-> <<"renewablescap">>, phase_out |-> <<"coalcap">>,
                other |-> <<>>, regional |-> FALSE, active |-> TRUE],
     steel |-> [approach |-> "sda", sector |-> <<>>, technology |-> <<>>,
                build_out |-> <<>>, phase_out |-> <<>>,
                other |-> <<"steel">>, regional |-> FALSE, active |-> TRUE]]

SectoralApproaches == {SectoralApproachA, SectoralApproachB}

SeqToSet(s) == {s[i] : i \in 1..Len(s)}

-----------------------------------------------------------------------------
(* _calculate_alignment_instance and the operations it calls *)

\* the loop body of _make_weighted_target, for one row: every entry of the
\* list equal to the row's technology negates the deviation once more
RECURSIVE FlipDeviation(_, _, _)
FlipDeviation(deviation, techs, technology) ==
    IF techs = <<>> THEN deviation
    ELSE FlipDeviation(
            IF Head(techs) = technology THEN FNeg(deviation) ELSE deviation,
            Tail(techs), technology)

\* a sign flip that forgets the technologies of the other list
SignFlipTechsPhaseOutOnly(sector_settings) == sector_settings["phase_out"]

SignFlipTechs(sector_settings) ==
    sector_settings["phase_out"] \o sector_settings["other"]

SignFlip(sa, row) ==
    IF row.sector \in DOMAIN sa
    THEN FlipDeviation(row.deviation, SignFlipTechs(sa[row.sector]),
                       row.technology)
    ELSE row.deviation

WeightedDeviation(row) == FMul(row.deviation, row.loan_indicator)

\* a weighted target that takes the target of the row's own year
TargetEndOwnYear(tbl, cols, end_year, row) == row.target

\* results_target: the first target of each group of cols among the rows
\* whose end_year column equals end_year
TargetEnd(tbl, cols, end_year, row) ==
    IF HasNaKey(row, cols) THEN NaN
    ELSE FirstNotNa(Column(
            SelectSeq(tbl, LAMBDA r : /\ r.end_year = end_year
                                      /\ Project(r, cols) = Project(row, cols)),
            "target"))

MakeWeightedTarget(sa, tbl, cols, end_year) ==
    LET flipped == [i \in 1..Len(tbl) |->
                        [tbl[i] EXCEPT !.deviation = SignFlip(sa, tbl[i])]]
        weighted == [i \in 1..Len(tbl) |->
                        flipped[i] @@
                        [weighted_deviation |-> WeightedDeviation(flipped[i])]]
    IN [i \in 1..Len(tbl) |->
            LET target_end == TargetEnd(weighted, cols, end_year, weighted[i])
            IN weighted[i] @@
               [target_end |-> target_end,
                weighted_target |-> FMul(target_end, weighted[i].loan_indicator)]]

\* a split without the initial "no_change": unlisted rows stay unlabelled
DirectionNoDefault(sa, row) ==
    IF row.sector \notin DOMAIN sa THEN "nan"
    ELSE IF row.technology \in SeqToSet(sa[row.sector]["phase_out"])
         THEN "phase_out"
    ELSE IF row.technology \in SeqToSet(sa[row.sector]["build_out"])
         THEN "build_out"
    ELSE "nan"

\* the direction _make_bopo_split leaves on a row: "no_change", overwritten
\* by the phase_out loop, overwritten by the build_out loop
Direction(sa, row) ==
    IF row.sector \notin DOMAIN sa THEN "no_change"
    ELSE LET after_phase_out ==
                IF row.technology \in SeqToSet(sa[row.sector]["phase_out"])
                THEN "phase_out" ELSE "no_change"
         IN IF row.technology \in SeqToSet(sa[row.sector]["build_out"])
            THEN "build_out" ELSE after_phase_out

MakeBopoSplit(sa, tbl) ==
    [i \in 1..Len(tbl) |-> tbl[i] @@ [direction |-> Direction(sa, tbl[i])]]

Score(row, limit) ==
    Clip(FDiv(row.weighted_deviation, row.weighted_target),
         Int2Num(-1 * limit), Int2Num(limit))

AggregateResults(tbl, results_cols, limit) ==
    LET summed == GroupBySum(tbl, results_cols,
                    {"loan_indicator", "weighted_deviation", "weighted_target"},
                    FALSE)
    IN [i \in 1..Len(summed) |->
            summed[i] @@ [score |-> Score(summed[i], limit)]]

GroupingCols(facet_col) ==
    ({"sector", "technology", "region", "portfolio_id", "company_id",
      "loan_id", "portfolio_date"} \cup facet_col) \ {"year"}

ResultsCols(facet_col, bopo_split) ==
    {"end_year", "portfolio_date", "portfolio_id"} \cup facet_col
        \cup (IF bopo_split THEN {"direction"} ELSE {})

RECURSIVE MaxOf(_)
MaxOf(S) ==
    LET x == CHOOSE y \in S : TRUE
    IN IF S = {x} THEN x
       ELSE LET m == MaxOf(S \ {x}) IN IF x > m THEN x ELSE m

EndYear(tbl) ==
    MaxOf({tbl[i].portfolio_date \div 100 : i \in 1..Len(tbl)}) + Horizon

\* year_results after the copy: end_year is the row's year, deviation is
\* production - target
WithDeviation(tbl) ==
    [i \in 1..Len(tbl) |->
        tbl[i] @@ [end_year |-> tbl[i].year,
                   deviation |-> FSub(tbl[i].production, tbl[i].target)]]

SetEndYear(tbl, end_year) ==
    [i \in 1..Len(tbl) |-> [tbl[i] EXCEPT !.end_year = end_year]]

FilterEndYear(tbl, results_cols, end_year) ==
    IF "year" \notin results_cols
    THEN SelectSeq(tbl, LAMBDA r : r.year = end_year)
    ELSE tbl

-----------------------------------------------------------------------------
(* group_scores, of the calculator and of the results wrapper *)

RECURSIVE SumInt(_)
SumInt(s) == IF s = <<>> THEN 0 ELSE Head(s) + SumInt(Tail(s))

NumCols == {"loan_indicator", "weighted_deviation", "weighted_target", "score"}

\* DataFrame.groupby(grouper, as_index=False).sum(numeric_only=True)
GroupBySumNumeric(tbl, grouper) ==
    LET keys == SetToSeq(GroupKeys(tbl, grouper, TRUE))
        fields == IF tbl = <<>> THEN {} ELSE DOMAIN tbl[1]
    IN [i \in 1..Len(keys) |->
            LET rows == GroupRows(tbl, grouper, keys[i])
            IN keys[i]
               @@ [c \in (fields \cap NumCols) \ grouper |->
                        SumSkipNa(Column(rows, c))]
               @@ [c \in (fields \cap IntCols) \ grouper |->
                        SumInt(Column(rows, c))]]

UnclippedScore(row) == FDiv(row.weighted_deviation, row.weighted_target)

WithScore(tbl) ==
    [i \in 1..Len(tbl) |->
        [c \in DOMAIN tbl[i] \cup {"score"} |->
            IF c = "score" THEN UnclippedScore(tbl[i]) ELSE tbl[i][c]]]

DropColumns(tbl, cols) ==
    [i \in 1..Len(tbl) |-> [c \in DOMAIN tbl[i] \ cols |-> tbl[i][c]]]

\* a group_scores whose score is the mean of the scores of the group's rows
GroupScoresMeanOfScores(results_data, grouper) ==
    IF grouper = {} THEN WithScore(results_data)
    ELSE LET summed == GroupBySumNumeric(results_data, grouper)
         IN [i \in 1..Len(summed) |->
                [summed[i] EXCEPT !.score =
                    FDiv(summed[i].score,
                         Int2Num(Len(GroupRows(results_data, grouper,
                                        Project(summed[i], grouper)))))]]

\* alignmentCalculator.group_scores; grouper = {} stands for None
GroupScores(results_data, grouper) ==
    WithScore(IF grouper # {} THEN GroupBySumNumeric(results_data, grouper)
              ELSE results_data)

\* alignmentResults.group_scores; grouper = {} stands for None
ResultsGroupScores(results_data, grouper) ==
    IF grouper = {} THEN results_data
    ELSE DropColumns(WithScore(GroupBySumNumeric(results_data, grouper)),
                     {"weighted_deviation", "weighted_target"})

-----------------------------------------------------------------------------
(* The inputs of _calculate_alignment_instance: rows of the combined         *)
(* loan-climate table of one portfolio date, as calculate_net_alignment      *)
(* hands them over                                                           *)

MaxRows == 2

\* limit, of which 3 is the default
Limits == {0, 1, 3}

PortfolioDates == {202212, 202312}

SectorTechnologies ==
    {<<"power", "coalcap">>, <<"power", "renewablescap">>,
     <<"power", "nuclearcap">>}

\* production, target, loan indicator of a row of the end year
ValueProfiles ==
    {<<Int2Num(120), Int2Num(100), Int2Num(1)>>,
     <<Int2Num(500), Int2Num(100), Int2Num(2)>>,
     <<Int2Num(50), Zero, Int2Num(1)>>}

\* production, target, loan indicator of a row of the year before
EarlierProfile == <<Int2Num(80), Int2Num(90), Int2Num(1)>>

MatchedRow(portfolio_date, st, y, v) ==
    [sector |-> st[1], technology |-> st[2], region |-> "global",
     portfolio_id |-> "pf1", company_id |-> 1, loan_id |-> 1,
     portfolio_date |-> portfolio_date, year |-> y,
     production |-> v[1], target |-> v[2], loan_indicator |-> v[3]]

MatchedRows(portfolio_date) ==
    LET end_year == portfolio_date \div 100 + Horizon
    IN {MatchedRow(portfolio_date, st, end_year, v) :
            st \in SectorTechnologies, v \in ValueProfiles}
       \cup {MatchedRow(portfolio_date, st, end_year - 1, EarlierProfile) :
            st \in SectorTechnologies}

\* a loan of a company without climate data: the left merge of
\* _combine_pacta_loan_data leaves its climate columns missing
UnmatchedRow(portfolio_date) ==
    [sector |-> "nan", technology |-> "nan", region |-> "nan",
     portfolio_id |-> "pf1", company_id |-> 2, loan_id |-> 2,
     portfolio_date |-> portfolio_date, year |-> NoYear,
     production |-> NaN, target |-> NaN, loan_indicator |-> Int2Num(2)]

InstanceRows(portfolio_date) ==
    MatchedRows(portfolio_date) \cup {UnmatchedRow(portfolio_date)}

SeqsUpTo(S, n) == UNION {[1..k -> S] : k \in 1..n}

InstanceTables ==
    UNION {SeqsUpTo(InstanceRows(d), MaxRows) : d \in PortfolioDates}

FacetCols == {{}, {"year"}}

Groupers == {{}, {"portfolio_id"}}

NoCall == [facet_col |-> {}, bopo_split |-> FALSE, limit |-> 0,
           end_year |-> NoYear, grouper |-> {}]

InstanceInit ==
    /\ pc = "start"
    /\ settings \in {[sectoral_approach |-> sa] : sa \in SectoralApproaches}
    /\ data \in InstanceTables
    /\ call = NoCall
    /\ year_results = <<>>
    /\ results = <<>>
    /\ grouped = <<>>
    /\ pacta_company_indicators = <<>>
    /\ pacta_ownership = <<>>
    /\ loans = <<>>
    /\ regions = <<>>
    /\ df_pacta = <<>>
    /\ parameters_file = <<>>

\* _calculate_alignment_instance up to and including _make_weighted_target
\* and the overwrite of end_year
CalcWeightedTarget ==
    /\ pc = "start"
    /\ \E facet_col \in FacetCols, bopo_split \in BOOLEAN :
        LET end_year == EndYear(data)
        IN /\ call' = [call EXCEPT !.facet_col = facet_col,
                                   !.bopo_split = bopo_split,
                                   !.end_year = end_year]
           /\ year_results' =
                SetEndYear(
                    MakeWeightedTarget(settings.sectoral_approach,
                        WithDeviation(data), GroupingCols(facet_col), end_year),
                    end_year)
    /\ pc' = IF call'.bopo_split THEN "weighted_bopo" ELSE "weighted"
    /\ UNCHANGED <<settings, data, results, grouped, attributes>>

\* if bopo_split: _make_bopo_split
CalcBopoSplit ==
    /\ pc = "weighted_bopo"
    /\ year_results' = MakeBopoSplit(settings.sectoral_approach, year_results)
    /\ pc' = "weighted"
    /\ UNCHANGED <<settings, call, data, results, grouped, attributes>>

\* the end-year filter and _aggregate_results
CalcAggregate ==
    /\ pc = "weighted"
    /\ \E limit \in Limits :
        LET results_cols == ResultsCols(call.facet_col, call.bopo_split)
        IN /\ call' = [call EXCEPT !.limit = limit]
           /\ results' = AggregateResults(
                            FilterEndYear(year_results, results_cols,
                                          call.end_year),
                            results_cols, limit)
    /\ pc' = "aggregated"
    /\ UNCHANGED <<settings, data, year_results, grouped, attributes>>

\* alignmentCalculator.group_scores on the returned table
CallGroupScores ==
    /\ pc = "aggregated"
    /\ \E grouper \in Groupers :
        /\ call' = [call EXCEPT !.grouper = grouper]
        /\ grouped' = GroupScores(results, grouper)
    /\ pc' = "grouped"
    /\ UNCHANGED <<settings, data, year_results, results, attributes>>

\* alignmentResults.group_scores on the returned table
CallResultsGroupScores ==
    /\ pc = "aggregated"
    /\ \E grouper \in Groupers :
        /\ call' = [call EXCEPT !.grouper = grouper]
        /\ grouped' = ResultsGroupScores(results, grouper)
    /\ pc' = "results_grouped"
    /\ UNCHANGED <<settings, data, year_results, results, attributes>>

InstanceNext ==
    \/ CalcWeightedTarget
    \/ CalcBopoSplit
    \/ CalcAggregate
    \/ CallGroupScores
    \/ CallResultsGroupScores

SpecInstance == InstanceInit /\ [][InstanceNext]_vars

-----------------------------------------------------------------------------
(* _get_parent_companies *)

OwnershipRow(company, parent, flags, level) ==
    ("Company ID" :> company) @@ ("Parent Company ID" :> parent)
        @@ ("Is Parent" :> flags[1])
        @@ ("Is Ultimate Listed Parent" :> flags[2])
        @@ ("Is Ultimate Parent" :> flags[3])
        @@ ("Ownership Level" :> level)

ParentRow(company, parent) ==
    ("Company ID" :> company) @@ ("Parent Company ID" :> parent)

\* the rows _get_parent_companies looks for parents in
StructureFilter(df_structure, stop_at_weak_parents) ==
    SelectSeq(df_structure,
        LAMBDA r : IF stop_at_weak_parents THEN r["Is Parent"]
                   ELSE /\ r["Is Parent"]
                        /\ (r["Is Ultimate Listed Parent"]
                                \/ r["Is Ultimate Parent"]))

CompanyIds(df_structure) ==
    {df_structure[i]["Company ID"] : i \in 1..Len(df_structure)}

\* a choice that takes the row of the highest level whatever the order
FirstParentChoicesHighest(df_structure, company, ascending) ==
    LET rows == {i \in 1..Len(df_structure) :
                    df_structure[i]["Company ID"] = company}
        best == {i \in rows : \A j \in rows :
                    df_structure[i]["Ownership Level"]
                        >= df_structure[j]["Ownership Level"]}
    IN {df_structure[i]["Parent Company ID"] : i \in best}

\* sort_values(by="Ownership Level", ascending=ascending) followed by
\* groupby("Company ID")["Parent Company ID"].first(): the parent of a row of
\* the company with the lowest (highest) level.  The sort is not stable, so
\* among rows of equal level any one can come first.
FirstParentChoices(df_structure, company, ascending) ==
    LET rows == {i \in 1..Len(df_structure) :
                    df_structure[i]["Company ID"] = company}
        best == {i \in rows : \A j \in rows :
                    IF ascending
                    THEN df_structure[i]["Ownership Level"]
                            <= df_structure[j]["Ownership Level"]
                    ELSE df_structure[i]["Ownership Level"]
                            >= df_structure[j]["Ownership Level"]}
    IN {df_structure[i]["Parent Company ID"] : i \in best}

RECURSIVE SortedSeq(_)
SortedSeq(S) ==
    IF S = {} THEN <<>>
    ELSE LET x == CHOOSE y \in S : \A z \in S : y <= z
         IN <<x>> \o SortedSeq(S \ {x})

\* the tables the sort and the groupby can give, one row per company
ParentTables(df_structure, ascending) ==
    LET ids == SortedSeq(CompanyIds(df_structure))
    IN {[i \in 1..Len(ids) |-> ParentRow(ids[i], f[ids[i]])] :
            f \in {g \in [CompanyIds(df_structure) ->
                            {df_structure[i]["Parent Company ID"] :
                                i \in 1..Len(df_structure)}] :
                    \A c \in CompanyIds(df_structure) :
                        g[c] \in FirstParentChoices(df_structure, c,
                                                    ascending)}}

\* a fallback that forgets to leave out the companies that have a parent
OthersAll(df_structure, parents) == df_structure

\* the rows of the companies that are not in the index of parents
Others(df_structure, parents) ==
    SelectSeq(df_structure,
        LAMBDA r : r["Company ID"] \notin CompanyIds(parents))

\* the tables _get_parent_companies can return
GetParentCompanies(df_structure, stop_at_weak_parents, lowest_level) ==
    UNION {{parents \o others :
                others \in ParentTables(Others(df_structure, parents), FALSE)} :
            parents \in ParentTables(
                StructureFilter(df_structure, stop_at_weak_parents),
                lowest_level)}

MaxOwnershipRows == 2

OwnershipYears == {2023}

\* Is Parent, Is Ultimate Listed Parent, Is Ultimate Parent: no parent, a
\* weak parent, an ultimate listed parent, an ultimate parent
ParentFlags ==
    {<<FALSE, FALSE, FALSE>>, <<TRUE, FALSE, FALSE>>,
     <<TRUE, TRUE, FALSE>>, <<TRUE, FALSE, TRUE>>}

OwnershipRows ==
    {OwnershipRow(c, p, f, l) :
        c \in {1, 2}, p \in {10, 11}, f \in ParentFlags, l \in {1, 2}}

ParentsInit ==
    /\ pc = "start"
    /\ pacta_ownership \in
            {[y \in OwnershipYears |-> t] :
                t \in SeqsUpTo(OwnershipRows, MaxOwnershipRows)}
    /\ settings = <<>>
    /\ call = <<>>
    /\ data = <<>>
    /\ year_results = <<>>
    /\ results = <<>>
    /\ grouped = <<>>
    /\ pacta_company_indicators = <<>>
    /\ loans = <<>>
    /\ regions = <<>>
    /\ df_pacta = <<>>
    /\ parameters_file = <<>>

CallGetParentCompanies ==
    /\ pc = "start"
    /\ \E stop_at_weak_parents \in BOOLEAN, lowest_level \in BOOLEAN,
          year \in DOMAIN pacta_ownership :
        /\ call' = [stop_at_weak_parents |-> stop_at_weak_parents,
                    lowest_level |-> lowest_level, year |-> year]
        /\ results' \in GetParentCompanies(pacta_ownership[year],
                            stop_at_weak_parents, lowest_level)
    /\ pc' = "parents"
    /\ UNCHANGED <<settings, data, year_results, grouped, attributes>>

SpecParents == ParentsInit /\ [][CallGetParentCompanies]_vars

-----------------------------------------------------------------------------
(* _apply_production_thresholds *)

\* GroupBy.agg("mean"): missing values are skipped, no value gives NaN
MeanSkipNa(s) ==
    LET present == SelectSeq(s, LAMBDA x : ~IsNaN(x))
    IN IF present = <<>> THEN NaN
       ELSE FDiv(SumSkipNa(present), Int2Num(Len(present)))

CompanyCols == {"technology", "region", "year", "company_id", "sector"}

\* loan_data.groupby([technology, region, year, company_id, sector]).first()
FirstPerCompanyRow(loan_data) ==
    LET keys == SetToSeq(GroupKeys(loan_data, CompanyCols, TRUE))
    IN [i \in 1..Len(keys) |->
            LET rows == GroupRows(loan_data, CompanyCols, keys[i])
            IN keys[i] @@ [c \in {"total_assets", "turnover", "production"} |->
                            FirstNotNa(Column(rows, c))]]

\* the table companies, with its two ratios
CompanyRatios(loan_data) ==
    LET first == FirstPerCompanyRow(loan_data)
        keys == SetToSeq(GroupKeys(first, {"company_id", "sector"}, TRUE))
    IN [i \in 1..Len(keys) |->
            LET rows == GroupRows(first, {"company_id", "sector"}, keys[i])
                total_assets == MeanSkipNa(Column(rows, "total_assets"))
                turnover == MeanSkipNa(Column(rows, "turnover"))
                production == SumSkipNa(Column(rows, "production"))
            IN keys[i] @@ [total_assets |-> total_assets,
                           turnover |-> turnover,
                           production |-> production,
                           asset_ratio |-> FDiv(production, total_assets),
                           turnover_ratio |-> FDiv(production, turnover)]]

\* a comparison the wrong way round
BelowThreshold(ratio, threshold) == FLt(ratio, threshold)

\* companies[ratio] > threshold[ratio]
ExceedsThreshold(ratio, threshold) == FLt(threshold, ratio)

\* eligible_companies: a set of company ids
EligibleCompanies(loan_data, thresholds) ==
    LET companies == CompanyRatios(loan_data)
        rows == 1..Len(companies)
    IN {companies[i].company_id :
            i \in {j \in rows : /\ IsNaN(companies[j].turnover_ratio)
                                 /\ IsNaN(companies[j].asset_ratio)}}
       \cup {companies[i].company_id :
            i \in {j \in rows :
                /\ companies[j].sector \in DOMAIN thresholds
                /\ ExceedsThreshold(companies[j].asset_ratio,
                        thresholds[companies[j].sector].asset_ratio)}}
       \cup {companies[i].company_id :
            i \in {j \in rows :
                /\ companies[j].sector \in DOMAIN thresholds
                /\ ExceedsThreshold(companies[j].turnover_ratio,
                        thresholds[companies[j].sector].turnover_ratio)}}

HasColumn(tbl, col) == \A i \in 1..Len(tbl) : col \in DOMAIN tbl[i]

\* the index labels of the rows _apply_production_thresholds returns
KeptIndexes(loan_data, thresholds) ==
    IF HasColumn(loan_data, "turnover") /\ HasColumn(loan_data, "total_assets")
    THEN LET eligible_companies == EligibleCompanies(loan_data, thresholds)
         IN {i \in 1..Len(loan_data) :
                loan_data[i].company_id \in eligible_companies}
    ELSE 1..Len(loan_data)

ApplyProductionThresholds(loan_data, thresholds) ==
    LET kept == SortedSeq(KeptIndexes(loan_data, thresholds))
    IN [i \in 1..Len(kept) |-> loan_data[kept[i]]]

MaxLoanRows == 2

\* total_assets, turnover
FinancialProfiles ==
    {<<Int2Num(1), Int2Num(4)>>, <<Int2Num(4), Int2Num(1)>>, <<NaN, NaN>>}

ThresholdSectorTechnologies ==
    {<<"power", "coalcap">>, <<"power", "renewablescap">>,
     <<"steel", "steel">>}

ThresholdRow(company_id, st, f) ==
    [company_id |-> company_id, sector |-> st[1], technology |-> st[2],
     region |-> "global", year |-> 2028, production |-> Int2Num(2),
     total_assets |-> f[1], turnover |-> f[2]]

\* company 1 produces in every sector, company 2 in one; the loan of
\* company 3 found no production
ThresholdRows ==
    {ThresholdRow(1, st, f) :
        st \in ThresholdSectorTechnologies, f \in FinancialProfiles}
    \cup {ThresholdRow(2, <<"power", "coalcap">>, f) : f \in FinancialProfiles}
    \cup {[company_id |-> 3, sector |-> "nan", technology |-> "nan",
           region |-> "nan", year |-> NoYear, production |-> NaN,
           total_assets |-> Int2Num(1), turnover |-> Int2Num(1)]}

ThresholdTables ==
    SeqsUpTo(ThresholdRows, MaxLoanRows)
    \cup {DropColumns(<<r>>, {"total_assets", "turnover"}) :
            r \in ThresholdRows}

ThresholdValues == {Int2Num(1), Int2Num(3)}

ProductionThresholds ==
    {[power |-> [asset_ratio |-> a, turnover_ratio |-> t],
      steel |-> [asset_ratio |-> b, turnover_ratio |-> b]] :
        a \in ThresholdValues, t \in ThresholdValues, b \in ThresholdValues}

ThresholdsInit ==
    /\ pc = "start"
    /\ settings \in {[production_thresholds |-> th] :
                        th \in ProductionThresholds}
    /\ data \in ThresholdTables
    /\ call = <<>>
    /\ year_results = <<>>
    /\ results = <<>>
    /\ grouped = <<>>
    /\ pacta_company_indicators = <<>>
    /\ pacta_ownership = <<>>
    /\ loans = <<>>
    /\ regions = <<>>
    /\ df_pacta = <<>>
    /\ parameters_file = <<>>

CallApplyProductionThresholds ==
    /\ pc = "start"
    /\ results' = ApplyProductionThresholds(data,
                        settings.production_thresholds)
    /\ pc' = "filtered"
    /\ UNCHANGED <<settings, call, data, year_results, grouped, attributes>>

SpecThresholds == ThresholdsInit /\ [][CallApplyProductionThresholds]_vars

HasFinancials == HasColumn(data, "turnover") /\ HasColumn(data, "total_assets")

\* the pair (company, sector) is eligible: one of its ratios exceeds the
\* threshold of the sector, or both its ratios are undefined
PairEligible(company_id, sector) ==
    LET companies == CompanyRatios(data)
        thresholds == settings.production_thresholds
        mine == {i \in 1..Len(companies) :
                    /\ companies[i].company_id = company_id
                    /\ companies[i].sector = sector}
    IN \A i \in mine :
        \/ IsNaN(companies[i].asset_ratio) /\ IsNaN(companies[i].turnover_ratio)
        \/ /\ sector \in DOMAIN thresholds
           /\ \/ FLt(thresholds[sector].asset_ratio, companies[i].asset_ratio)
              \/ FLt(thresholds[sector].turnover_ratio,
                     companies[i].turnover_ratio)

\* C5: with turnover and total_assets columns, _apply_production_thresholds
\* keeps a row of company C in sector S only if the pair (C, S) is eligible;
\* a company eligible in one sector does not make its rows in another
\* sector eligible
C5_PairEligibility ==
    (pc = "filtered" /\ HasFinancials) =>
        \A i \in 1..Len(results) :
            PairEligible(results[i].company_id, results[i].sector)

Raised(lower, higher) ==
    \A sector \in DOMAIN lower :
        /\ FLe(lower[sector].asset_ratio, higher[sector].asset_ratio)
        /\ FLe(lower[sector].turnover_ratio, higher[sector].turnover_ratio)

\* C6: with the table fixed, the rows _apply_production_thresholds keeps
\* under raised thresholds are among the rows it keeps under the lower ones
C6_ThresholdMonotone ==
    pc = "filtered" =>
        LET kept == KeptIndexes(data, settings.production_thresholds)
        IN /\ results = [i \in 1..Len(SortedSeq(kept)) |->
                            data[SortedSeq(kept)[i]]]
           /\ \A higher \in ProductionThresholds :
                Raised(settings.production_thresholds, higher) =>
                    KeptIndexes(data, higher) \subseteq kept

\* the rows of a company were kept, and a raised threshold drops them while
\* it keeps the rows of another company
C6_Witness ==
    /\ pc = "filtered"
    /\ HasFinancials
    /\ \E higher \in ProductionThresholds :
        /\ Raised(settings.production_thresholds, higher)
        /\ KeptIndexes(data, higher) # {}
        /\ KeptIndexes(data, higher)
                # KeptIndexes(data, settings.production_thresholds)

-----------------------------------------------------------------------------
(* _normalise_production and the division by norm in _preprocess_data *)

\* tbl.groupby(key_cols)[["production"]].sum()
ProductionTotals(tbl, key_cols) == GroupBySum(tbl, key_cols, {"production"}, TRUE)

\* df_combined.merge(df_total, left_on=key_cols, right_on=key_cols), an inner
\* merge, and the norm column made of production_sector_total
MergeNorm(df_combined, df_total, key_cols, fillna) ==
    LET keys == {Project(df_total[k], key_cols) : k \in 1..Len(df_total)}
        total(r) == (CHOOSE k \in 1..Len(df_total) :
                        Project(df_total[k], key_cols) = Project(r, key_cols))
        matched == SelectSeq(df_combined,
                        LAMBDA r : Project(r, key_cols) \in keys)
    IN [i \in 1..Len(matched) |->
            LET production_sector_total ==
                    df_total[total(matched[i])].production
            IN matched[i] @@
               [norm |-> IF fillna /\ IsNaN(production_sector_total)
                         THEN Int2Num(1) ELSE production_sector_total]]

ParentIds(companies) ==
    {companies[i]["Parent Company ID"] : i \in 1..Len(companies)}

\* the production of the parent companies, per sector
ParentTotals(company_indicators, companies) ==
    ProductionTotals(
        SelectSeq(company_indicators,
            LAMBDA r : r.company_id \in ParentIds(companies)),
        {"sector"})

GlobalNormalisation(df_combined, company_indicators, companies) ==
    MergeNorm(df_combined, ParentTotals(company_indicators, companies),
              {"sector"}, FALSE)

EconomicNormalisation(df_combined, economic_weights, company_indicators, companies) ==
    LET df_total == ParentTotals(company_indicators, companies)
        weighted == [i \in 1..Len(df_total) |->
            IF df_total[i].sector \in DOMAIN economic_weights
            THEN [df_total[i] EXCEPT !.production =
                    FMul(Int2Num(economic_weights[df_total[i].sector]), @)]
            ELSE df_total[i]]
    IN MergeNorm(df_combined, weighted, {"sector"}, FALSE)

\* the rows of the year with a positive loan indicator
YearLoanRows(df_combined, year) ==
    SelectSeq(df_combined,
        LAMBDA r : r.year = year /\ FLt(Zero, r.loan_indicator))

TotalNormalisation(df_combined, year) ==
    MergeNorm(df_combined,
              ProductionTotals(YearLoanRows(df_combined, year), {"sector"}),
              {"sector"}, TRUE)

PortfolioNormalisation(df_combined, year) ==
    MergeNorm(df_combined,
              ProductionTotals(YearLoanRows(df_combined, year),
                               {"sector", "portfolio_id"}),
              {"sector", "portfolio_id"}, TRUE)

CompanyNormalisation(df_combined) ==
    MergeNorm(df_combined,
              ProductionTotals(df_combined, {"sector", "company_id"}),
              {"sector", "company_id"}, TRUE)

NormaliseProduction(method, df_combined, year, economic_weights, company_indicators, companies) ==
    IF method = "global"
    THEN GlobalNormalisation(df_combined, company_indicators, companies)
    ELSE IF method = "economic"
    THEN EconomicNormalisation(df_combined, economic_weights,
                               company_indicators, companies)
    ELSE IF method = "total" THEN TotalNormalisation(df_combined, year)
    ELSE IF method = "portfolio" THEN PortfolioNormalisation(df_combined, year)
    ELSE IF method = "company" THEN CompanyNormalisation(df_combined)
    ELSE [i \in 1..Len(df_combined) |-> df_combined[i] @@ [norm |-> Int2Num(1)]]

\* a division that forgets production
DivideTargetOnly(pacta_data) ==
    [i \in 1..Len(pacta_data) |->
        [pacta_data[i] EXCEPT !.target = FDiv(@, pacta_data[i].norm)]]

\* target and production divided by norm
DivideByNorm(pacta_data) ==
    [i \in 1..Len(pacta_data) |->
        [pacta_data[i] EXCEPT !.target = FDiv(@, pacta_data[i].norm),
                              !.production = FDiv(@, pacta_data[i].norm)]]

MaxNormRows == 2

NormYears == {2023}

NormRow(sector, company_id, portfolio_id, year, production, loan_indicator) ==
    [sector |-> sector, company_id |-> company_id,
     portfolio_id |-> portfolio_id, year |-> year,
     production |-> Int2Num(production), target |-> Int2Num(3),
     loan_indicator |-> Int2Num(loan_indicator)]

\* rows of the combined table: company 1 has a loan in each portfolio, steel
\* has no row of 2023 with a loan, the loan of company 3 found no production
NormRows ==
    {NormRow("power", 1, "pf1", 2023, 2, 5),
     NormRow("power", 1, "pf2", 2023, 2, 5),
     NormRow("power", 1, "pf1", 2028, 4, 5),
     NormRow("power", 2, "pf2", 2023, 2, 5),
     NormRow("steel", 2, "pf1", 2028, 4, 5),
     NormRow("steel", 2, "pf1", 2023, 2, 0),
     NormRow("steel", 1, "pf2", 2028, 0, 5),
     [sector |-> "nan", company_id |-> 3, portfolio_id |-> "pf1",
      year |-> NoYear, production |-> NaN, target |-> NaN,
      loan_indicator |-> Int2Num(5)]}

IndicatorRow(company_id, sector, production) ==
    [company_id |-> company_id, sector |-> sector,
     production |-> Int2Num(production)]

CompanyIndicatorTables ==
    {<<IndicatorRow(10, "power", 6), IndicatorRow(11, "steel", 3)>>,
     <<IndicatorRow(10, "power", 6)>>,
     <<IndicatorRow(10, "power", 6), IndicatorRow(11, "power", 2)>>}

Ultimate == <<TRUE, FALSE, TRUE>>

\* in the second table the two rows of company 1 tie on the level
OwnershipTables ==
    {<<OwnershipRow(1, 10, Ultimate, 1), OwnershipRow(2, 11, Ultimate, 1)>>,
     <<OwnershipRow(1, 10, Ultimate, 1), OwnershipRow(1, 11, Ultimate, 1)>>,
     <<OwnershipRow(1, 10, <<TRUE, FALSE, FALSE>>, 1)>>}

EconomicWeights == [power |-> 2]

Methods == {"global", "economic", "total", "portfolio", "company", "none"}

NormInit ==
    /\ pc = "start"
    /\ settings = [economic_weights |-> EconomicWeights]
    /\ data \in SeqsUpTo(NormRows, MaxNormRows)
    /\ pacta_company_indicators \in
            {[y \in NormYears |-> t] : t \in CompanyIndicatorTables}
    /\ pacta_ownership \in
            {[y \in NormYears |-> t] : t \in OwnershipTables}
    /\ call = <<>>
    /\ year_results = <<>>
    /\ results = <<>>
    /\ grouped = <<>>
    /\ loans = <<>>
    /\ regions = <<>>
    /\ df_pacta = <<>>
    /\ parameters_file = <<>>

\* _preprocess_data: the call of _normalise_production
PreprocessNormalise ==
    /\ pc = "start"
    /\ \E method \in Methods, year \in DOMAIN pacta_company_indicators :
        \E companies \in GetParentCompanies(pacta_ownership[year],
                                             FALSE, TRUE) :
            /\ call' = [method |-> method, year |-> year,
                        companies |-> companies]
            /\ year_results' =
                    NormaliseProduction(method, data, year,
                        settings.economic_weights,
                        pacta_company_indicators[year], companies)
    /\ pc' = "normalised"
    /\ UNCHANGED <<settings, data, results, grouped, attributes>>

\* _preprocess_data: target and production are divided by norm
PreprocessDivide ==
    /\ pc = "normalised"
    /\ results' = DivideByNorm(year_results)
    /\ pc' = "preprocessed"
    /\ UNCHANGED <<settings, call, data, year_results, grouped, attributes>>

NormNext == PreprocessNormalise \/ PreprocessDivide

SpecNorm == NormInit /\ [][NormNext]_vars

DeviationRatio(row) == FDiv(FSub(row.production, row.target), row.target)

\* C8: _preprocess_data divides the target and the production of every row
\* by the norm of the row, so that a row with norm # 0 and target # 0 has
\* the same (production - target) / target after as before, for every
\* normalisation method
C8_RatioPreserved ==
    pc = "preprocessed" =>
        /\ Len(results) = Len(year_results)
        /\ \A i \in 1..Len(results) :
            LET before == year_results[i]
            IN /\ results[i].target = FDiv(before.target, before.norm)
               /\ results[i].production = FDiv(before.production, before.norm)
               /\ (before.norm # Zero /\ before.target # Zero) =>
                    DeviationRatio(results[i]) = DeviationRatio(before)

\* a row was divided by a norm that is neither 0 nor 1, and its ratio is
\* a number
C8_Witness ==
    /\ pc = "preprocessed"
    /\ \E i \in 1..Len(results) :
        /\ IsFinite(year_results[i].norm)
        /\ year_results[i].norm \notin {Zero, Int2Num(1)}
        /\ results[i].target # year_results[i].target
        /\ results[i].production # year_results[i].production
        /\ IsFinite(DeviationRatio(results[i]))
        /\ DeviationRatio(results[i]) # Zero

\* the reference table of the method has a total for the row
HasDivisor(row) ==
    IF call.method \in {"global", "economic"}
    THEN \E i \in 1..Len(pacta_company_indicators[call.year]) :
            /\ pacta_company_indicators[call.year][i].sector = row.sector
            /\ pacta_company_indicators[call.year][i].company_id
                    \in ParentIds(call.companies)
    ELSE IF call.method = "total"
    THEN \E i \in 1..Len(data) :
            /\ data[i].sector = row.sector
            /\ data[i].year = call.year
            /\ FLt(Zero, data[i].loan_indicator)
    ELSE IF call.method = "portfolio"
    THEN \E i \in 1..Len(data) :
            /\ data[i].sector = row.sector
            /\ data[i].portfolio_id = row.portfolio_id
            /\ data[i].year = call.year
            /\ FLt(Zero, data[i].loan_indicator)
    ELSE row.sector # "nan"

\* C9: under the methods global, economic, total, portfolio and company
\* every input row of _normalise_production is in its output with a defined
\* norm, and with norm = 1 when the reference table has no total for it
C9_EveryRowKept ==
    (pc = "normalised" /\ call.method # "none") =>
        \A i \in 1..Len(data) :
            \E j \in 1..Len(year_results) :
                /\ DropColumns(<<year_results[j]>>, {"norm"}) = <<data[i]>>
                /\ ~IsNaN(year_results[j].norm)
                /\ ~HasDivisor(data[i]) => year_results[j].norm = Int2Num(1)

-----------------------------------------------------------------------------
(* _reconsile_regions, _add_region and _calculate_pacta *)

\* None; a region file that was loaded has rows
None == <<>>

\* Series.str.upper() on the iso codes of the region file
Upper == [nl |-> "NL", us |-> "US", de |-> "DE", be |-> "BE", fr |-> "FR"]

\* scenario.merge(regions, how="inner", on="region")
\*         .groupby(["sector", "region"], as_index=False).count():
\* the column isos counts the merged rows of each (sector, region)
Options(scenario, region_table) ==
    LET merged == {p \in (1..Len(scenario)) \X (1..Len(region_table)) :
                        scenario[p[1]].region = region_table[p[2]].region}
        Key(p) == <<scenario[p[1]].sector, scenario[p[1]].region>>
    IN {[sector |-> k[1], region |-> k[2],
         isos |-> Cardinality({p \in merged : Key(p) = k})] :
            k \in {Key(p) : p \in merged}}

\* .sort_values(by=["isos"]): ascending, rows with equal counts in any order
RECURSIVE SortedOptions(_)
SortedOptions(S) ==
    IF S = {} THEN {<<>>}
    ELSE UNION {{<<o>> \o rest : rest \in SortedOptions(S \ {o})} :
                    o \in {x \in S : \A y \in S : x.isos <= y.isos}}

CountryList(region_table, region) ==
    {Upper[region_table[j].isos] :
        j \in {k \in 1..Len(region_table) :
                    region_table[k].region = region}}

RECURSIVE Assigned(_)
Assigned(sector_region) ==
    IF sector_region = <<>> THEN {}
    ELSE Head(sector_region).countries \cup Assigned(Tail(sector_region))

\* the loop of _reconsile_regions over the sorted options; region_mapping
\* maps a sector to its (region, countries) entries in insertion order
RECURSIVE RegionMapping(_, _, _, _)
RegionMapping(options, region_table, sa, region_mapping) ==
    IF options = <<>> THEN region_mapping
    ELSE LET sector == Head(options).sector
             region == Head(options).region
             entry ==
                IF sa[sector].regional
                THEN IF sector \in DOMAIN region_mapping
                     THEN Append(region_mapping[sector],
                            [region |-> region,
                             countries |->
                                CountryList(region_table, region)
                                    \ Assigned(region_mapping[sector])])
                     ELSE <<[region |-> region,
                             countries |->
                                CountryList(region_table, region)]>>
                ELSE <<[region |-> region,
                        countries |-> CountryList(region_table, "global")]>>
         IN RegionMapping(Tail(options), region_table, sa,
                          (sector :> entry) @@ region_mapping)

\* _reconsile_regions: the mappings it can return; scenario is the pathway
\* table of the first scenario year
ReconsileRegions(region_table, scenario, sa) ==
    IF region_table = None THEN {None}
    ELSE {RegionMapping(options, region_table, sa, <<>>) :
            options \in SortedOptions(Options(scenario, region_table))}

\* the inner loop of _add_region for one row: every region whose countries
\* hold the plant location overwrites the region assigned before
RECURSIVE AssignRegion(_, _, _)
AssignRegion(region, sector_region, plant_location) ==
    IF sector_region = <<>> THEN region
    ELSE AssignRegion(
            IF plant_location \in Head(sector_region).countries
            THEN Head(sector_region).region ELSE region,
            Tail(sector_region), plant_location)

\* _add_region: the table self._pacta_company_indicators[year] holds after it
AddRegion(tbl, region_mapping) ==
    [i \in 1..Len(tbl) |->
        [region |->
            IF region_mapping = None
               \/ tbl[i].sector \notin DOMAIN region_mapping
            THEN "global"
            ELSE AssignRegion("global", region_mapping[tbl[i].sector],
                              tbl[i].plant_location)] @@ tbl[i]]

SdaSectors(sa) == {s \in DOMAIN sa : sa[s].approach = "sda"}

\* the left merge of _calculate_pacta with the pathway table, for one row:
\* the scenario row with the same sector, technology_temp, year and region
ScenarioMatch(row, scenario, sa) ==
    LET technology_temp == IF row.sector \in SdaSectors(sa) THEN "none"
                           ELSE row.technology
        hits == {j \in 1..Len(scenario) :
                    /\ scenario[j].sector = row.sector
                    /\ scenario[j].technology = technology_temp
                    /\ scenario[j].year = row.year
                    /\ scenario[j].region = row.region}
    IN IF hits = {} THEN [smsp |-> NaN, tmsr |-> NaN, emission_factor |-> NaN]
       ELSE scenario[CHOOSE j \in hits : TRUE]

\* a groupby sum that leaves out the rows without production
ProductionIniPositive(df, row, scenario_year, cols, techs) ==
    LET group == SelectSeq(df, LAMBDA r :
                    /\ r.year = scenario_year
                    /\ r.technology \in techs
                    /\ r.production # Zero
                    /\ ~HasNaKey(r, cols)
                    /\ Project(r, cols) = Project(row, cols))
    IN IF group = <<>> THEN NaN ELSE SumSkipNa(Column(group, "production"))

\* df_pacta[df_pacta["year"] == scenario_year].groupby(cols)["production"]
\* .sum(), merged back on cols with how="left": the value a row receives
ProductionIni(df, row, scenario_year, cols, techs) ==
    LET group == SelectSeq(df, LAMBDA r :
                    /\ r.year = scenario_year
                    /\ r.technology \in techs
                    /\ ~HasNaKey(r, cols)
                    /\ Project(r, cols) = Project(row, cols))
    IN IF group = <<>> THEN NaN ELSE SumSkipNa(Column(group, "production"))

Technologies(df) == {df[i].technology : i \in 1..Len(df)}

\* _calculate_tms without the company's own production in the technology
TmsTargetShareOnly(df, row, scenario_row, sector_settings, scenario_year) ==
    LET sector_level ==
            IF row.technology \in SeqToSet(sector_settings["sector"])
            THEN FMul(ProductionIni(df, row, scenario_year,
                              {"company_id", "sector", "region"},
                              Technologies(df)),
                      scenario_row.smsp)
            ELSE NaN
    IN IF row.technology \in SeqToSet(sector_settings["technology"])
       THEN FMul(ProductionIni(df, row, scenario_year,
                    {"company_id", "plant_location", "technology",
                     "sector", "region"}, {row.technology}),
                 scenario_row.tmsr)
       ELSE sector_level

\* _calculate_tms, for one row of the sector: the loop over
\* sector_settings["sector"], then the loop over
\* sector_settings["technology"], which overwrites
TmsTarget(df, row, scenario_row, sector_settings, scenario_year) ==
    LET sector_level ==
            IF row.technology \in SeqToSet(sector_settings["sector"])
            THEN FAdd(FMul(ProductionIni(df, row, scenario_year,
                              {"company_id", "sector", "region"},
                              Technologies(df)),
                           scenario_row.smsp),
                      ProductionIni(df, row, scenario_year,
                              {"company_id", "sector", "region"},
                              {row.technology}))
            ELSE NaN
    IN IF row.technology \in SeqToSet(sector_settings["technology"])
       THEN FMul(ProductionIni(df, row, scenario_year,
                    {"company_id", "plant_location", "technology",
                     "sector", "region"}, {row.technology}),
                 scenario_row.tmsr)
       ELSE sector_level

\* the target of one row before the post-process of _calculate_pacta
RawTarget(df, row, scenario, sa, scenario_year) ==
    LET scenario_row == ScenarioMatch(row, scenario, sa)
    IN IF row.sector \notin DOMAIN sa THEN NaN
       ELSE IF sa[row.sector].approach = "tms"
       THEN TmsTarget(df, row, scenario_row, sa[row.sector], scenario_year)
       ELSE IF sa[row.sector].approach = "sda"
       THEN scenario_row.emission_factor
       ELSE NaN

\* a post-process that rescales the production before it multiplies the
\* target by it
PostProcessRescaledFirst(row, target) ==
    LET intensity == FLt(Zero, row.emission_factor)
        production == IF intensity
                      THEN FMul(row.emission_factor, row.production)
                      ELSE row.production
    IN [company_id |-> row.company_id,
        name_company |-> row.name_company,
        sector |-> row.sector,
        technology |-> row.technology,
        plant_location |-> row.plant_location,
        year |-> row.year,
        production |-> production,
        emission_factor |-> row.emission_factor,
        region |-> row.region,
        target |-> IF intensity THEN FMul(target, production) ELSE target]

\* the end of _calculate_pacta for one row: the columns kept, and for a
\* row with emission_factor > 0 the target times the production, then the
\* production times the emission factor
PostProcess(row, target) ==
    LET intensity == FLt(Zero, row.emission_factor)
    IN [company_id |-> row.company_id,
        name_company |-> row.name_company,
        sector |-> row.sector,
        technology |-> row.technology,
        plant_location |-> row.plant_location,
        year |-> row.year,
        production |->
            IF intensity
            THEN FMul(row.emission_factor, row.production)
            ELSE row.production,
        emission_factor |-> row.emission_factor,
        region |-> row.region,
        target |->
            IF intensity THEN FMul(target, row.production)
            ELSE target]

\* _calculate_pacta after _add_region: the table stored in
\* self._df_pacta[year]; tbl is the cached table with its region column
CalculatePacta(tbl, scenario, sa, scenario_year) ==
    SelectSeq([i \in 1..Len(tbl) |->
                    PostProcess(tbl[i],
                        RawTarget(tbl, tbl[i], scenario, sa, scenario_year))],
              LAMBDA r : ~IsNaN(r.target))

-----------------------------------------------------------------------------
(* The calculator object and the calls that compute results *)

MaxIndicatorRows == 2

\* the years of settings["main_pacta_file"] and of the scenario files
Vintages == {2023, 2024}

\* a row of the company indicators, as _load_main_pacta_data returns it
PactaRow(sector, technology, plant_location, y, production, emission_factor) ==
    [company_id |-> 1, name_company |-> "c1", sector |-> sector,
     technology |-> technology, plant_location |-> plant_location,
     year |-> y, production |-> production,
     emission_factor |-> emission_factor]

\* the rows a vintage can hold; year is counted from the vintage
PactaRows ==
    {PactaRow("power", "coalcap", "NL", 0, Int2Num(4), NaN),
     PactaRow("power", "coalcap", "NL", Horizon, Int2Num(3), NaN),
     PactaRow("power", "coalcap", "nan", 0, Int2Num(2), NaN),
     PactaRow("power", "renewablescap", "NL", 0, Int2Num(1), NaN),
     PactaRow("power", "renewablescap", "US", Horizon, Int2Num(2), NaN),
     PactaRow("steel", "steel", "NL", Horizon, Int2Num(5), Int2Num(2))}

\* the tables of at most n rows of S, no row twice
SubTables(S, n) ==
    {SetToSeq(T) : T \in {U \in SUBSET S : Cardinality(U) <= n}}

\* the table of vintage v with the rows of tbl
PactaTable(tbl, v) ==
    [i \in 1..Len(tbl) |-> [tbl[i] EXCEPT !.year = v + @]]

\* the vintages of one company universe: the same rows, a year apart
PactaVintages ==
    {[v \in Vintages |-> PactaTable(tbl, v)] :
        tbl \in SubTables(PactaRows, MaxIndicatorRows)}

ScenarioRow(sector, technology, y, region, smsp, tmsr, emission_factor) ==
    [sector |-> sector, technology |-> technology, year |-> y,
     region |-> region, smsp |-> smsp, tmsr |-> tmsr,
     emission_factor |-> emission_factor]

\* self._scenario_data[s][self._scenario_set][self._pathway]: the pathway
\* of scenario year s, one row per sector, technology, year and region
ScenarioData ==
    [s \in Vintages |->
        <<ScenarioRow("power", "coalcap", s, "global",
                      Zero, Int2Num(1), NaN),
          ScenarioRow("power", "coalcap", s + Horizon, "global",
                      Mk(-1, 4), Mk(1, 2), NaN),
          ScenarioRow("power", "coalcap", s, "europe",
                      Zero, Int2Num(1), NaN),
          ScenarioRow("power", "coalcap", s + Horizon, "europe",
                      Mk(-1, 2), Mk(s - 2022, 4), NaN),
          ScenarioRow("power", "renewablescap", s, "global",
                      Zero, Int2Num(1), NaN),
          ScenarioRow("power", "renewablescap", s + Horizon, "global",
                      Mk(1, 4), Int2Num(2), NaN),
          ScenarioRow("power", "renewablescap", s, "europe",
                      Zero, Int2Num(1), NaN),
          ScenarioRow("power", "renewablescap", s + Horizon, "europe",
                      Mk(s - 2022, 2), Int2Num(3), NaN),
          ScenarioRow("power", "nuclearcap", s, "global",
                      Zero, Int2Num(1), NaN),
          ScenarioRow("power", "nuclearcap", s + Horizon, "global",
                      Zero, Mk(3, 2), NaN),
          ScenarioRow("steel", "none", s, "global",
                      NaN, NaN, Int2Num(2)),
          ScenarioRow("steel", "none", s + Horizon, "global",
                      NaN, NaN, Mk(s - 2022, 2))>>]

\* list(self._scenario_data.keys())[0]
FirstScenarioYear == CHOOSE s \in Vintages : \A t \in Vintages : s <= t

\* _load_region_data(...)[self._scenario_set]: one row per region and
\* country
RegionFile ==
    <<[region |-> "global", isos |-> "nl"],
      [region |-> "global", isos |-> "us"],
      [region |-> "europe", isos |-> "nl"]>>

LoanRow(loan_id, company_id, portfolio_date) ==
    [loan_id |-> loan_id, company_id |-> company_id,
     portfolio_code |-> "p1", portfolio_date |-> portfolio_date,
     outstanding_amount |-> Int2Num(100)]

Loanbook == <<LoanRow(1, 1, 202312), LoanRow(2, 1, 202412)>>

Init ==
    /\ pc = "constructed"
    /\ settings \in {[sectoral_approach |-> sa] : sa \in SectoralApproaches}
    /\ pacta_company_indicators \in PactaVintages
    /\ pacta_ownership = [v \in Vintages |-> <<>>]
    /\ loans \in {None, Loanbook}
    /\ regions = None
    /\ df_pacta = <<>>
    /\ parameters_file = <<>>
    /\ call = <<>>
    /\ data = <<>>
    /\ year_results = <<>>
    /\ results = <<>>
    /\ grouped = <<>>

\* the cached tables after _add_region ran for the years of the set
RegionsAdded(years, region_table) ==
    {[v \in Vintages |->
        IF v \in years
        THEN AddRegion(pacta_company_indicators[v], mapping[v])
        ELSE pacta_company_indicators[v]] :
        mapping \in [Vintages ->
            ReconsileRegions(region_table, ScenarioData[FirstScenarioYear],
                             settings.sectoral_approach)]}

\* self._df_pacta after _calculate_pacta(year, year) ran for the years of
\* the set on the cached tables
TargetsCalculated(years, cached) ==
    [v \in years |->
        CalculatePacta(cached[v], ScenarioData[v],
                       settings.sectoral_approach, v)] @@ df_pacta

\* calculate_net_alignment: _preprocess_data for every year loads the
\* region file when asked, writes the region column into the cached table
\* and stores the target table; the rest works on copies.  Without a loan
\* table self._loans.copy() of _combine_pacta_loan_data fails, which is
\* after _calculate_pacta of the first year, first in the key order of
\* self._pacta_company_indicators
CalculateNetAlignment ==
    \E use_region_file \in BOOLEAN, use_loan_file \in BOOLEAN,
       first \in Vintages :
        LET region_table == IF use_region_file THEN RegionFile ELSE regions
            raised == use_loan_file /\ loans = None
            years == IF raised THEN {first} ELSE Vintages
        IN /\ regions' = region_table
           /\ pacta_company_indicators' \in
                    RegionsAdded(years, region_table)
           /\ df_pacta' =
                    TargetsCalculated(years, pacta_company_indicators')
           /\ call' = [operation |-> "calculate_net_alignment",
                       use_loan_file |-> use_loan_file,
                       use_region_file |-> use_region_file]
           /\ pc' = IF raised THEN "raised" ELSE "returned"
           /\ UNCHANGED <<settings, data, year_results, results, grouped,
                          parameters_file, pacta_ownership, loans>>

\* the (scenario_year, data_year) pairs _make_master_data preprocesses
MasterDataPairs ==
    {p \in Vintages \X Vintages : -1 < p[2] - p[1] /\ p[2] - p[1] < 2}

\* calculate_net_alignment_change_over_time: _make_master_data hands
\* scenario_year to _preprocess_data in the place of normalise_method and
\* normalise_method in the place of scenario_year, so the first
\* _calculate_pacta writes the region column of its data year and then
\* fails on self._scenario_data[normalise_method], a method name being no
\* scenario year; which pair comes first is the key order of the two dicts.
\* Without a loan table _make_portfolio_dates fails before that
CalculateNetAlignmentChangeOverTime ==
    \E use_region_file \in BOOLEAN, normalise_method \in Methods,
       first \in MasterDataPairs :
        LET region_table == IF use_region_file THEN RegionFile ELSE regions
        IN /\ regions' = IF loans = None THEN regions ELSE region_table
           /\ pacta_company_indicators' \in
                    IF loans = None THEN {pacta_company_indicators}
                    ELSE RegionsAdded({first[2]}, region_table)
           /\ call' = [operation |->
                            "calculate_net_alignment_change_over_time"]
           /\ pc' = "raised"
           /\ UNCHANGED <<settings, data, year_results, results, grouped,
                          parameters_file, pacta_ownership, loans, df_pacta>>

\* production["plant_location"].fillna("XX") of _add_production_location,
\* on the cached table itself
FillPlantLocation(tbl) ==
    [i \in 1..Len(tbl) |->
        [tbl[i] EXCEPT !.plant_location =
            IF @ = "nan" THEN "XX" ELSE @]]

\* add_information_to_results: _add_company_names and _add_target call
\* _calculate_pacta(year, year) for every year, _add_company_domicile reads
\* a file of a fixed path and fails when it is absent,
\* _add_production_location fills the plant locations of every cached
\* table; _add_main_sector and _add_production write no attribute
AddInformationToResults ==
    \E company_names \in BOOLEAN, company_domicile \in BOOLEAN,
       target_values \in BOOLEAN, plant_locations \in BOOLEAN :
      \E domicile_file \in (IF company_domicile THEN BOOLEAN ELSE {TRUE}) :
        LET raised == company_domicile /\ ~domicile_file
            calculated == company_names \/ (target_values /\ ~raised)
            filled == plant_locations /\ ~raised
        IN /\ \E cached \in (IF calculated
                             THEN RegionsAdded(Vintages, regions)
                             ELSE {pacta_company_indicators}) :
                /\ df_pacta' = IF calculated
                               THEN TargetsCalculated(Vintages, cached)
                               ELSE df_pacta
                /\ pacta_company_indicators' =
                        IF filled
                        THEN [v \in Vintages |-> FillPlantLocation(cached[v])]
                        ELSE cached
           /\ call' = [operation |-> "add_information_to_results"]
           /\ pc' = IF raised THEN "raised" ELSE "returned"
           /\ UNCHANGED <<settings, data, year_results, results, grouped,
                          parameters_file, pacta_ownership, loans, regions>>

Next ==
    \/ CalculateNetAlignment
    \/ CalculateNetAlignmentChangeOverTime
    \/ AddInformationToResults

Spec == Init /\ [][Next]_vars

\* C10: computing results never mutates cached inputs: every step of
\* calculate_net_alignment, calculate_net_alignment_change_over_time and
\* add_information_to_results leaves every cached per-year
\* company-indicator table and the loan table as they were loaded
C10_CachedInputsUnchanged ==
    [][/\ pacta_company_indicators' = pacta_company_indicators
       /\ loans' = loans]_vars

-----------------------------------------------------------------------------
(* Properties of _calculate_alignment_instance and group_scores *)

Aggregated == pc \in {"aggregated", "grouped", "results_grouped"}

\* C1: every row _aggregate_results returns whose summed weighted_target is
\* not zero has a score between -limit and limit, for every limit >= 0
C1_ScoreBounded ==
    Aggregated =>
        \A i \in 1..Len(results) :
            results[i].weighted_target # Zero =>
                /\ FLe(Int2Num(-1 * call.limit), results[i].score)
                /\ FLe(results[i].score, Int2Num(call.limit))

\* a returned row whose ratio lies above the limit and was clipped to it
C1_Witness ==
    /\ pc = "aggregated"
    /\ \E i \in 1..Len(results) :
        /\ results[i].weighted_target # Zero
        /\ FLt(Int2Num(call.limit),
               FDiv(results[i].weighted_deviation, results[i].weighted_target))
        /\ results[i].score = Int2Num(call.limit)

\* C14 as stated: a group whose summed weighted_target is 0 has a score
\* that is NaN or an infinity, which the clip leaves outside
\* [-limit, limit]
C14_ZeroTargetUnclipped ==
    Aggregated =>
        \A i \in 1..Len(results) :
            results[i].weighted_target = Zero =>
                IsNaN(results[i].score) \/ IsInf(results[i].score)

\* C14, amended: a group whose summed weighted_target is 0 raises no error;
\* its score is NaN when its summed weighted_deviation is 0 too, and
\* otherwise the infinity clipped to the bound, limit or -limit
C14_ZeroTargetScore ==
    Aggregated =>
        \A i \in 1..Len(results) :
            results[i].weighted_target = Zero =>
                IF results[i].weighted_deviation = Zero
                THEN IsNaN(results[i].score)
                ELSE results[i].score =
                        Int2Num(Sign(results[i].weighted_deviation[1])
                                    * call.limit)

\* a group with summed weighted_target 0 and a summed weighted_deviation
\* above 0, whose score is the limit, next to a group whose score is NaN
C14_Witness ==
    /\ pc = "aggregated"
    /\ call.limit > 0
    /\ \E i, j \in 1..Len(results) :
        /\ results[i].weighted_target = Zero
        /\ FLt(Zero, results[i].weighted_deviation)
        /\ results[i].score = Int2Num(call.limit)
        /\ results[j].weighted_target = Zero
        /\ IsNaN(results[j].score)

\* the rows of tbl that fall in the group of out_row
Members(tbl, cols, out_row) ==
    SelectSeq(tbl, LAMBDA r : Project(r, cols) = Project(out_row, cols))

RatioOfSums(rows) ==
    FDiv(SumSkipNa(Column(rows, "weighted_deviation")),
         SumSkipNa(Column(rows, "weighted_target")))

\* C2: the score of a group is the ratio of the sums of weighted_deviation
\* and weighted_target over the rows of the group: in _aggregate_results
\* before the clip, and in both group_scores when a grouper is given
C2_RatioOfSums ==
    /\ Aggregated =>
        LET results_cols == ResultsCols(call.facet_col, call.bopo_split)
            input == FilterEndYear(year_results, results_cols, call.end_year)
        IN \A i \in 1..Len(results) :
            results[i].score =
                Clip(RatioOfSums(Members(input, results_cols, results[i])),
                     Int2Num(-1 * call.limit), Int2Num(call.limit))
    /\ (pc \in {"grouped", "results_grouped"} /\ call.grouper # {}) =>
        \A i \in 1..Len(grouped) :
            grouped[i].score =
                RatioOfSums(Members(results, call.grouper, grouped[i]))

\* group_scores merged two rows of different scores, and the mean of their
\* scores is not the score of the group
C2_Witness ==
    /\ pc = "grouped"
    /\ call.grouper # {}
    /\ \E i \in 1..Len(grouped) :
        LET rows == Members(results, call.grouper, grouped[i])
        IN /\ Len(rows) = 2
           /\ IsFinite(rows[1].score)
           /\ IsFinite(rows[2].score)
           /\ rows[1].score # rows[2].score
           /\ IsFinite(grouped[i].score)
           /\ grouped[i].score #
                FDiv(FAdd(rows[1].score, rows[2].score), Int2Num(2))

SignFlipListed(sa, row) ==
    /\ row.sector \in DOMAIN sa
    /\ row.technology \in SeqToSet(sa[row.sector]["phase_out"])
                            \cup SeqToSet(sa[row.sector]["other"])

\* C3: _make_weighted_target gives a row of a technology of its sector's
\* phase_out or other list the weighted_deviation
\* -(production - target) * loan_indicator, and every other row
\* (production - target) * loan_indicator; a table of one phase_out row with
\* production 120, target 100 and a positive loan indicator aggregates to a
\* negative weighted_deviation
C3_SignFlip ==
    /\ pc # "start" =>
        \A i \in 1..Len(year_results) :
            LET raw == FMul(FSub(data[i].production, data[i].target),
                            data[i].loan_indicator)
            IN year_results[i].weighted_deviation =
                IF SignFlipListed(settings.sectoral_approach, data[i])
                THEN FNeg(raw) ELSE raw
    /\ ( /\ Aggregated
         /\ Len(data) = 1
         /\ data[1].sector \in DOMAIN settings.sectoral_approach
         /\ data[1].technology \in SeqToSet(
                settings.sectoral_approach[data[1].sector]["phase_out"])
         /\ data[1].production = Int2Num(120)
         /\ data[1].target = Int2Num(100)
         /\ FLt(Zero, data[1].loan_indicator) ) =>
        \A i \in 1..Len(results) : FLt(results[i].weighted_deviation, Zero)

\* the one-row phase_out table of 120 against 100 has been aggregated
C3_Witness ==
    /\ pc = "aggregated"
    /\ Len(data) = 1
    /\ data[1].technology = "coalcap"
    /\ data[1].production = Int2Num(120)
    /\ data[1].target = Int2Num(100)
    /\ Len(results) = 1
    /\ FLt(results[1].weighted_deviation, Zero)

ExpectedDirection(sa, row) ==
    IF row.sector \notin DOMAIN sa THEN "no_change"
    ELSE IF row.technology \in SeqToSet(sa[row.sector]["phase_out"])
         THEN "phase_out"
    ELSE IF row.technology \in SeqToSet(sa[row.sector]["build_out"])
         THEN "build_out"
    ELSE "no_change"

BopoSplitDone == call.bopo_split /\ pc \notin {"start", "weighted_bopo"}

-----------------------------------------------------------------------------
(* calculate_net_alignment: the loop over the portfolio dates *)

\* _calculate_alignment_instance as one function of its table
CalculateAlignmentInstance(sa, tbl, facet_col, bopo_split, limit) ==
    LET end_year == EndYear(tbl)
        results_cols == ResultsCols(facet_col, bopo_split)
        weighted == SetEndYear(
                        MakeWeightedTarget(sa, WithDeviation(tbl),
                                           GroupingCols(facet_col), end_year),
                        end_year)
        year_table == IF bopo_split THEN MakeBopoSplit(sa, weighted)
                      ELSE weighted
    IN AggregateResults(FilterEndYear(year_table, results_cols, end_year),
                        results_cols, limit)

\* the portfolio dates of the loan book
LoanDates == {202212, 202312, 202412}

\* the years master_data can have: those of the company indicators that
\* have a scenario
MasterYears == {{2023}, {2022, 2023}}

\* the rows of one preprocessed table: one loan per portfolio date, with
\* the values of the vintage
PreprocessedTable(dates, v) ==
    LET ds == SetToSeq(dates)
    IN [i \in 1..Len(ds) |->
            MatchedRow(ds[i], <<"power", "coalcap">>,
                       ds[i] \div 100 + Horizon, v)]

\* master_data after the first loop: every year's table holds the loans of
\* every portfolio date of the loan book
MasterData ==
    UNION {{[y \in years |-> PreprocessedTable(dates, v[y])] :
                v \in [years -> ValueProfiles]} :
            years \in MasterYears, dates \in SUBSET LoanDates \ {{}}}

\* portfolio_dates after the first loop
PortfolioDatesOf(master_data) ==
    UNION {{master_data[y][i].portfolio_date :
                i \in 1..Len(master_data[y])} : y \in DOMAIN master_data}

RECURSIVE Concat(_)
Concat(tables) ==
    IF tables = <<>> THEN <<>> ELSE Head(tables) \o Concat(Tail(tables))

DatesInit ==
    /\ pc = "preprocessed"
    /\ settings = [sectoral_approach |-> SectoralApproachA]
    /\ data \in MasterData
    /\ \E facet_col \in FacetCols, bopo_split \in BOOLEAN :
        call = [facet_col |-> facet_col, bopo_split |-> bopo_split,
                limit |-> 3,
                portfolio_dates |-> PortfolioDatesOf(data),
                skipped |-> {}]
    /\ year_results = <<>>
    /\ results = <<>>
    /\ grouped = <<>>
    /\ pacta_company_indicators = <<>>
    /\ pacta_ownership = <<>>
    /\ loans = <<>>
    /\ regions = <<>>
    /\ df_pacta = <<>>
    /\ parameters_file = <<>>

\* one pass of the loop over portfolio_dates, a set, so in any order: a
\* date whose year is a key of master_data adds its instance to
\* total_results (held in year_results), any other date is printed and
\* skipped
NextPortfolioDate ==
    /\ pc = "preprocessed"
    /\ \E portfolio_date \in call.portfolio_dates :
        /\ IF portfolio_date \div 100 \in DOMAIN data
           THEN /\ year_results' =
                    Append(year_results,
                        CalculateAlignmentInstance(
                            settings.sectoral_approach,
                            SelectSeq(data[portfolio_date \div 100],
                                LAMBDA r : r.portfolio_date = portfolio_date),
                            call.facet_col, call.bopo_split, call.limit))
                /\ call' = [call EXCEPT
                                !.portfolio_dates = @ \ {portfolio_date}]
           ELSE /\ year_results' = year_results
                /\ call' = [call EXCEPT
                                !.portfolio_dates = @ \ {portfolio_date},
                                !.skipped = @ \cup {portfolio_date}]
    /\ UNCHANGED <<pc, settings, data, results, grouped, attributes>>

\* return pd.concat(total_results): concat raises ValueError on an empty
\* list
ConcatResults ==
    /\ pc = "preprocessed"
    /\ call.portfolio_dates = {}
    /\ IF year_results = <<>>
       THEN pc' = "raised" /\ results' = results
       ELSE pc' = "returned" /\ results' = Concat(year_results)
    /\ UNCHANGED <<settings, call, data, year_results, grouped, attributes>>

DatesNext == NextPortfolioDate \/ ConcatResults

SpecDates == DatesInit /\ [][DatesNext]_vars

\* C11: a portfolio date whose year has no preprocessed vintage is not
\* fatal: once every date was visited the call returns, whatever the dates
\* of the data are, with one result per date whose year has a vintage
C11_MismatchNotFatal ==
    pc \in {"returned", "raised"} =>
        /\ pc = "returned"
        /\ Len(year_results) =
                Cardinality({d \in PortfolioDatesOf(data) :
                                d \div 100 \in DOMAIN data})

-----------------------------------------------------------------------------
(* Properties of the calculator object *)

\* C12: calculate_net_alignment with use_loan_file=True on an instance
\* without a loan table ends in an error, raised before any target table
\* is computed and before any cached table is written
C12_MissingLoansRaiseFirst ==
    [][("operation" \in DOMAIN call'
            /\ call'.operation = "calculate_net_alignment"
            /\ call'.use_loan_file /\ loans = None)
        => /\ pc' = "raised"
           /\ df_pacta' = df_pacta
           /\ pacta_company_indicators' = pacta_company_indicators]_vars

-----------------------------------------------------------------------------
(* update_settings and the settings store of AlignmentCalculatorConfig *)

MaxSettingsChanges == 2

\* the keys update_settings accepts
ValidKeys ==
    {"main_pacta_file", "company_information_file", "economic_weights",
     "production_thresholds", "scenario_data", "sectoral_approach"}

\* the keys of the dicts handed to update_settings: accepted ones and one
\* that is not
ChangeKeys ==
    {"economic_weights", "production_thresholds", "sectoral_approach",
     "loan_file"}

\* _adjust_path on the values of the settings: ".." becomes the directory
\* of the package
AdjustPath ==
    [v \in {"../original", "../new", "pkg/original", "pkg/new"} |->
        IF v = "../original" THEN "pkg/original"
        ELSE IF v = "../new" THEN "pkg/new"
        ELSE v]

\* parameters.yaml of the package
OriginalParameters == [k \in ValidKeys |-> "../original"]

NoFile == [exists |-> FALSE]

\* load_settings: the user's file when it exists, the file of the package
\* otherwise, paths adjusted
LoadSettings(file, original_settings) ==
    LET stored == IF ~original_settings /\ file.exists THEN file.settings
                  ELSE OriginalParameters
    IN [k \in DOMAIN stored |-> AdjustPath[stored[k]]]

\* _load_and_check_setting
LoadAndCheckSetting(setting, old_settings, file) ==
    IF setting \in DOMAIN old_settings THEN old_settings[setting]
    ELSE LoadSettings(file, TRUE)[setting]

\* a loop that reads every accepted key and forgets the other keys
RECURSIVE ReadSettingsChangeLenient(_, _)
ReadSettingsChangeLenient(items, arguments) ==
    IF items = <<>> THEN [raised |-> FALSE, arguments |-> arguments]
    ELSE ReadSettingsChangeLenient(Tail(items),
            IF Head(items).key \in ValidKeys
            THEN [arguments EXCEPT ![Head(items).key] = Head(items).val]
            ELSE arguments)

\* the loop of update_settings over settings_change.items(): the values of
\* the keyword arguments, or the ValueError of the first key that is not
\* accepted
RECURSIVE ReadSettingsChange(_, _)
ReadSettingsChange(items, arguments) ==
    IF items = <<>> THEN [raised |-> FALSE, arguments |-> arguments]
    ELSE IF Head(items).key \in ValidKeys
    THEN ReadSettingsChange(Tail(items),
            [arguments EXCEPT ![Head(items).key] = Head(items).val])
    ELSE [raised |-> TRUE, arguments |-> arguments]

\* AlignmentCalculatorConfig.config: the new settings
Config(arguments, file) ==
    LET old_settings == LoadSettings(file, FALSE)
    IN [k \in ValidKeys |->
            IF arguments[k] # "None" THEN arguments[k]
            ELSE LoadAndCheckSetting(k, old_settings, file)]

\* the dicts of at most n items, as sequences in insertion order
RECURSIVE SettingsChanges(_)
SettingsChanges(n) ==
    IF n = 0 THEN {<<>>}
    ELSE LET shorter == SettingsChanges(n - 1)
         IN shorter \cup
            {Append(s, [key |-> k, val |-> "../new"]) :
                s \in {t \in shorter : Len(t) = n - 1},
                k \in ChangeKeys}

HasDistinctKeys(items) ==
    \A i, j \in 1..Len(items) : items[i].key = items[j].key => i = j

SettingsInit ==
    /\ pc = "constructed"
    /\ parameters_file = NoFile
    /\ settings = LoadSettings(parameters_file, FALSE)
    /\ call = <<>>
    /\ data = <<>>
    /\ year_results = <<>>
    /\ results = <<>>
    /\ grouped = <<>>
    /\ pacta_company_indicators = <<>>
    /\ pacta_ownership = <<>>
    /\ loans = <<>>
    /\ regions = <<>>
    /\ df_pacta = <<>>

\* update_settings(settings_change, save_changes)
UpdateSettings ==
    \E settings_change \in SettingsChanges(MaxSettingsChanges),
       save_changes \in BOOLEAN :
        LET read == ReadSettingsChange(settings_change,
                                       [k \in ValidKeys |-> "None"])
            new_settings == Config(read.arguments, parameters_file)
        IN /\ HasDistinctKeys(settings_change)
           /\ call' = [settings_change |-> settings_change,
                       save_changes |-> save_changes]
           /\ IF read.raised
              THEN /\ pc' = "raised"
                   /\ UNCHANGED <<settings, parameters_file>>
              ELSE /\ pc' = "returned"
                   /\ parameters_file' =
                        IF save_changes
                        THEN [exists |-> TRUE, settings |-> new_settings]
                        ELSE parameters_file
                   /\ settings' =
                        IF save_changes
                        THEN LoadSettings(parameters_file', FALSE)
                        ELSE new_settings
           /\ UNCHANGED <<data, year_results, results, grouped,
                          pacta_company_indicators, pacta_ownership, loans,
                          regions, df_pacta>>

\* reset_settings of the configuration: the user's file becomes a copy of
\* the loaded file of the package
ResetSettings ==
    /\ parameters_file' =
            [exists |-> TRUE, settings |-> LoadSettings(parameters_file, TRUE)]
    /\ pc' = "returned"
    /\ call' = <<>>
    /\ UNCHANGED <<settings, data, year_results, results, grouped,
                   pacta_company_indicators, pacta_ownership, loans,
                   regions, df_pacta>>

SettingsNext == UpdateSettings \/ ResetSettings

SpecSettings == SettingsInit /\ [][SettingsNext]_vars

HasInvalidKey(items) == \E i \in 1..Len(items) : items[i].key \notin ValidKeys

-----------------------------------------------------------------------------
(* _calculate_pacta as a function of the cached table *)

MaxPactaRows == 3

\* the year of the company indicators and of the scenario
PactaYear == CHOOSE v \in Vintages : \A w \in Vintages : v <= w

\* rows of the cached table of PactaYear, no two with the same company,
\* sector, technology, plant location and year
TargetRows ==
    {PactaRow("power", "coalcap", "NL", PactaYear, Int2Num(4), NaN),
     PactaRow("power", "coalcap", "NL", PactaYear + Horizon, Int2Num(3), NaN),
     PactaRow("power", "coalcap", "nan", PactaYear, Int2Num(2), NaN),
     PactaRow("power", "coalcap", "US", PactaYear, Int2Num(6), NaN),
     PactaRow("power", "renewablescap", "NL", PactaYear, Int2Num(1), NaN),
     PactaRow("power", "renewablescap", "NL", PactaYear + Horizon,
              Int2Num(5), NaN),
     PactaRow("power", "renewablescap", "US", PactaYear, Zero, NaN),
     PactaRow("power", "renewablescap", "US", PactaYear + Horizon,
              Int2Num(2), NaN),
     PactaRow("power", "nuclearcap", "US", PactaYear, Int2Num(2), Int2Num(3)),
     PactaRow("steel", "steel", "NL", PactaYear, Int2Num(4), Zero),
     PactaRow("steel", "steel", "NL", PactaYear + Horizon,
              Int2Num(5), Int2Num(2)),
     [PactaRow("power", "coalcap", "NL", PactaYear, Int2Num(8), NaN)
        EXCEPT !.company_id = 2, !.name_company = "c2"]}

\* a region file in which the region "europe" lists more countries than the
\* region "global"
RegionFileEurope ==
    <<[region |-> "global", isos |-> "nl"],
      [region |-> "global", isos |-> "us"],
      [region |-> "europe", isos |-> "nl"],
      [region |-> "europe", isos |-> "de"],
      [region |-> "europe", isos |-> "be"],
      [region |-> "europe", isos |-> "fr"]>>

PactaInit ==
    /\ pc = "start"
    /\ settings \in {[sectoral_approach |-> sa] : sa \in SectoralApproaches}
    /\ data \in SubTables(TargetRows, MaxPactaRows)
    /\ regions \in {None, RegionFile, RegionFileEurope}
    /\ call = <<>>
    /\ year_results = <<>>
    /\ results = <<>>
    /\ grouped = <<>>
    /\ pacta_company_indicators = <<>>
    /\ pacta_ownership = <<>>
    /\ loans = <<>>
    /\ df_pacta = <<>>
    /\ parameters_file = <<>>

\* _calculate_pacta(year, scenario_year): year_results is the cached table
\* after _add_region, results the table stored in self._df_pacta[year]
CallCalculatePacta ==
    /\ pc = "start"
    /\ \E region_mapping \in
            ReconsileRegions(regions, ScenarioData[FirstScenarioYear],
                             settings.sectoral_approach) :
        year_results' = AddRegion(data, region_mapping)
    /\ call' = [year |-> PactaYear, scenario_year |-> PactaYear]
    /\ results' = CalculatePacta(year_results', ScenarioData[PactaYear],
                                 settings.sectoral_approach, PactaYear)
    /\ pc' = "calculated"
    /\ UNCHANGED <<settings, data, grouped, attributes>>

PactaNext == CallCalculatePacta

SpecPacta == PactaInit /\ [][PactaNext]_vars

RowKey == {"company_id", "sector", "technology", "plant_location", "year"}

\* the rows of the stored table that come from the given row of the
\* cached table
StoredRows(row) ==
    SelectSeq(results, LAMBDA r : Project(r, RowKey) = Project(row, RowKey))

\* the target of the row before the post-process
TargetBefore(row) ==
    RawTarget(year_results, row, ScenarioData[call.scenario_year],
              settings.sectoral_approach, call.scenario_year)

\* C15: a row with emission_factor > 0, of whatever sector, is stored with
\* target = target before the post-process * original production and
\* production = emission_factor * original production; before the
\* post-process the target of a row of an sda sector is the scenario's
\* emission factor; every other row keeps its production and its target
C15_IntensityPostProcess ==
    pc = "calculated" =>
        \A i \in 1..Len(year_results) :
            LET row == year_results[i]
                sa == settings.sectoral_approach
                scenario_row ==
                    ScenarioMatch(row, ScenarioData[call.scenario_year], sa)
                before == IF sa[row.sector].approach = "sda"
                          THEN scenario_row.emission_factor
                          ELSE TargetBefore(row)
                stored == StoredRows(row)
            IN /\ Len(stored) <= 1
               /\ Len(stored) = 1 =>
                    IF FLt(Zero, row.emission_factor)
                    THEN /\ stored[1].target = FMul(before, row.production)
                         /\ stored[1].production =
                                FMul(row.emission_factor, row.production)
                    ELSE /\ stored[1].target = before
                         /\ stored[1].production = row.production

\* a stored row of the sda sector and a stored row of a tms sector, both
\* with emission_factor > 0 and rescaled
C15_Witness ==
    /\ pc = "calculated"
    /\ \E i, j \in 1..Len(year_results) :
        /\ year_results[i].sector = "steel"
        /\ year_results[j].sector = "power"
        /\ FLt(Zero, year_results[i].emission_factor)
        /\ FLt(Zero, year_results[j].emission_factor)
        /\ Len(StoredRows(year_results[i])) = 1
        /\ Len(StoredRows(year_results[j])) = 1
        /\ StoredRows(year_results[i])[1].production
                # year_results[i].production
        /\ StoredRows(year_results[j])[1].target # TargetBefore(year_results[j])

\* the rows of the cached table at the scenario year that agree with the
\* row on the columns
AtScenarioYear(row, cols) ==
    SelectSeq(year_results, LAMBDA r :
        /\ r.year = call.scenario_year
        /\ Project(r, cols) = Project(row, cols))

\* the rows of a tms sector whose technology is in the technology list
TechnologyLevelRows ==
    {i \in 1..Len(year_results) :
        LET sa == settings.sectoral_approach
            row == year_results[i]
        IN /\ sa[row.sector].approach = "tms"
           /\ row.technology \in SeqToSet(sa[row.sector]["technology"])}

\* C16: _calculate_tms sets the target of every row of a tms sector and a
\* technology of its technology list to the company's summed production at
\* the scenario year in the same technology, plant location and region,
\* times the tmsr of the row; stated for the rows of companies that have
\* such production
C16_TechnologyTarget ==
    pc = "calculated" =>
        \A i \in TechnologyLevelRows :
            LET row == year_results[i]
                initial == AtScenarioYear(row,
                    {"company_id", "sector", "technology", "plant_location",
                     "region"})
                tmsr == ScenarioMatch(row, ScenarioData[call.scenario_year],
                                      settings.sectoral_approach).tmsr
            IN initial # <<>> =>
                TargetBefore(row) =
                    FMul(SumSkipNa(Column(initial, "production")), tmsr)

\* the rows of a tms sector whose technology is in the sector list only
SectorLevelRows ==
    {i \in 1..Len(year_results) :
        LET sa == settings.sectoral_approach
            row == year_results[i]
        IN /\ sa[row.sector].approach = "tms"
           /\ row.technology \in SeqToSet(sa[row.sector]["sector"])
           /\ row.technology \notin SeqToSet(sa[row.sector]["technology"])}

\* the smsp the scenario gives the row
Smsp(row) ==
    ScenarioMatch(row, ScenarioData[call.scenario_year],
                  settings.sectoral_approach).smsp

\* the company's production at the scenario year in the sector and region
\* of the row, over all technologies
SectorTotal(row) ==
    SumSkipNa(Column(AtScenarioYear(row, {"company_id", "sector", "region"}),
                     "production"))

ZeroProductionRows ==
    {i \in SectorLevelRows :
        LET initial == AtScenarioYear(year_results[i],
                {"company_id", "sector", "technology", "region"})
        IN /\ initial # <<>>
           /\ SumSkipNa(Column(initial, "production")) = Zero}

\* C18 as stated: for sector-level TMS, the rows of a technology in which
\* the company has zero production at the scenario year get the target 0
\* and are stored
C18_ZeroProductionZeroTarget ==
    pc = "calculated" =>
        \A i \in ZeroProductionRows :
            /\ TargetBefore(year_results[i]) = Zero
            /\ Len(StoredRows(year_results[i])) = 1

\* C18: for sector-level TMS, the rows of a technology in which the company
\* has zero production at the scenario year get the target (total
\* production of the company in the sector and region at the scenario
\* year) * smsp, and are stored when the scenario gives the row a smsp
C18_ZeroProductionShareTarget ==
    pc = "calculated" =>
        \A i \in ZeroProductionRows :
            LET row == year_results[i]
            IN /\ TargetBefore(row) = FMul(SectorTotal(row), Smsp(row))
               /\ ~IsNaN(Smsp(row)) =>
                    /\ ~IsNaN(TargetBefore(row))
                    /\ Len(StoredRows(row)) = 1

\* a stored row of a company with zero production in the technology at the
\* scenario year, whose target is not 0
C18_Witness ==
    /\ pc = "calculated"
    /\ \E i \in ZeroProductionRows :
        /\ Len(StoredRows(year_results[i])) = 1
        /\ FLt(Zero, StoredRows(year_results[i])[1].target)

-----------------------------------------------------------------------------
(* _aggregate_over_time_results as a function of the table of              *)
(* calculate_net_alignment_change_over_time                                  *)

MaxPortfolioRows == 4

\* the scenario year, data year, portfolio date and end year of the tables
\* the loop of calculate_net_alignment_change_over_time appends, for the
\* vintages 2023 and 2024 and three portfolio dates; end_year is the year of
\* the portfolio date at the time of the call plus the horizon
Combos ==
    {[scenario_year |-> 2023, data_year |-> 2023, portfolio_date |-> 202306,
      end_year |-> 2023 + Horizon],
     [scenario_year |-> 2023, data_year |-> 2023, portfolio_date |-> 202312,
      end_year |-> 2023 + Horizon],
     [scenario_year |-> 2023, data_year |-> 2024, portfolio_date |-> 202312,
      end_year |-> 2023 + Horizon],
     [scenario_year |-> 2023, data_year |-> 2024, portfolio_date |-> 202412,
      end_year |-> 2023 + Horizon],
     [scenario_year |-> 2024, data_year |-> 2024, portfolio_date |-> 202412,
      end_year |-> 2024 + Horizon]}

\* loan_indicator, weighted_deviation and weighted_target of a result row
OverTimeProfiles ==
    {<<Int2Num(1), Int2Num(1), Int2Num(2)>>,
     <<Int2Num(1), Int2Num(10), Int2Num(1)>>,
     <<Int2Num(2), Int2Num(-2), Int2Num(2)>>,
     <<Zero, Zero, Zero>>}

Absent == <<>>

\* a row as _calculate_alignment_instance returns it under facet_col =
\* ["data_year", "scenario_year"]
OverTimeRow(portfolio_id, combo, profile, limit) ==
    LET row == combo @@ [portfolio_id |-> portfolio_id,
                         loan_indicator |-> profile[1],
                         weighted_deviation |-> profile[2],
                         weighted_target |-> profile[3]]
    IN row @@ [score |-> Score(row, limit)]

\* the tables of one portfolio: at most one row per combination
PortfolioTables(portfolio_id, limit, n) ==
    {LET present == {c \in Combos : f[c] # Absent}
     IN [i \in 1..Cardinality(present) |->
            OverTimeRow(portfolio_id, SetToSeq(present)[i],
                        f[SetToSeq(present)[i]], limit)] :
        f \in {g \in [Combos -> OverTimeProfiles \cup {Absent}] :
                Cardinality({c \in Combos : g[c] # Absent}) <= n}}

\* the table of a second portfolio, with loans at two dates
SecondPortfolio(limit) ==
    LET profile == <<Int2Num(1), Int2Num(3), Int2Num(2)>>
        combos == SetToSeq({c \in Combos : c.portfolio_date # 202306})
    IN [i \in 1..Len(combos) |-> OverTimeRow("b", combos[i], profile, limit)]

OverTimeLimits == {1, 3}

OverTimeInit ==
    /\ pc = "start"
    /\ \E limit \in OverTimeLimits, second \in BOOLEAN :
        /\ call = [limit |-> limit]
        /\ \E tbl \in PortfolioTables("a", limit, MaxPortfolioRows) :
            data = tbl \o (IF second THEN SecondPortfolio(limit) ELSE <<>>)
    /\ settings = <<>>
    /\ year_results = <<>>
    /\ results = <<>>
    /\ grouped = <<>>
    /\ pacta_company_indicators = <<>>
    /\ pacta_ownership = <<>>
    /\ loans = <<>>
    /\ regions = <<>>
    /\ df_pacta = <<>>
    /\ parameters_file = <<>>

\* group_scores over the four columns, labelled "total", appended
AddTotal(tbl) ==
    LET total_group == GroupScores(tbl,
            {"scenario_year", "data_year", "portfolio_date", "end_year"})
    IN tbl \o [i \in 1..Len(total_group) |->
                    total_group[i] @@ [portfolio_id |-> "total"]]

\* data[self._portfolio_id].unique(): in order of first appearance
RECURSIVE UniquePortfolios(_)
UniquePortfolios(tbl) ==
    IF tbl = <<>> THEN <<>>
    ELSE LET rest == UniquePortfolios(SubSeq(tbl, 1, Len(tbl) - 1))
             id == tbl[Len(tbl)].portfolio_id
         IN IF id \in SeqToSet(rest) THEN rest ELSE Append(rest, id)

SortKeyLe(a, b) ==
    \/ a.scenario_year < b.scenario_year
    \/ /\ a.scenario_year = b.scenario_year
       /\ \/ a.data_year < b.data_year
          \/ /\ a.data_year = b.data_year
             /\ a.portfolio_date <= b.portfolio_date

RECURSIVE InsertRow(_, _)
InsertRow(row, sorted) ==
    IF sorted = <<>> THEN <<row>>
    ELSE IF SortKeyLe(row, Head(sorted)) THEN <<row>> \o sorted
    ELSE <<Head(sorted)>> \o InsertRow(row, Tail(sorted))

\* sort_values(by=["scenario_year", "data_year", "portfolio_date"]) of the
\* rows of one portfolio, which differ in these columns
RECURSIVE SortPortfolio(_)
SortPortfolio(tbl) ==
    IF tbl = <<>> THEN <<>>
    ELSE InsertRow(Head(tbl), SortPortfolio(Tail(tbl)))

\* 3 * scenario_year.diff().mean() == 1 and the loan indicator sums to more
\* than 0
IsAnalysed(sorted) ==
    /\ Len(sorted) > 1
    /\ 3 * (sorted[Len(sorted)].scenario_year - sorted[1].scenario_year)
            = Len(sorted) - 1
    /\ FLt(Zero, SumSkipNa(Column(sorted, "loan_indicator")))

TrueLine(row) ==
    /\ row.scenario_year = row.end_year - 5
    /\ row.scenario_year = row.data_year
    /\ row.scenario_year = row.portfolio_date \div 100

\* the three assignments of metric, the later overwriting the earlier, with
\* the shifted rows given by their offset
MetricOf(sorted, k, portfolio_offset, counterparty_offset) ==
    LET true_line(j) == j \in 1..Len(sorted) /\ TrueLine(sorted[j])
    IN IF true_line(k + counterparty_offset) THEN "counterparty_shift"
       ELSE IF true_line(k + portfolio_offset) THEN "portfolio_shift"
       ELSE IF true_line(k) THEN "decarbonisation_shift"
       ELSE ""

\* a labelling that shifts true_lines down instead of up
LabelledShiftedDown(sorted) ==
    [k \in 1..Len(sorted) |->
        sorted[k] @@
        [difference |-> IF k = 1 THEN NaN
                        ELSE FSub(sorted[k].score, sorted[k - 1].score),
         true_lines |-> TrueLine(sorted[k]),
         metric |-> MetricOf(sorted, k, -1, -2)]]

\* the sorted rows with difference, true_lines and metric
Labelled(sorted) ==
    [k \in 1..Len(sorted) |->
        sorted[k] @@
        [difference |-> IF k = 1 THEN NaN
                        ELSE FSub(sorted[k].score, sorted[k - 1].score),
         true_lines |-> TrueLine(sorted[k]),
         metric |-> MetricOf(sorted, k, 1, 2)]]

Metrics == {"decarbonisation_shift", "portfolio_shift", "counterparty_shift"}

\* dropna and pivot_table: the mean difference of the rows of a data year
\* and a metric, NaN when there is none
PivotCell(labelled, data_year, metric) ==
    LET rows == SelectSeq(labelled, LAMBDA r :
                    /\ ~IsNaN(r.difference)
                    /\ r.data_year = data_year
                    /\ r.metric = metric)
    IN IF rows = <<>> THEN NaN
       ELSE FDiv(SumSkipNa(Column(rows, "difference")), Int2Num(Len(rows)))

HasAllMetrics(labelled) ==
    \A m \in Metrics :
        \E k \in 1..Len(labelled) :
            ~IsNaN(labelled[k].difference) /\ labelled[k].metric = m

\* the right merge of the pivot table with the scores of the true lines
OverTimeOutput(labelled) ==
    LET scores == SelectSeq(labelled, LAMBDA r : r.true_lines)
    IN [i \in 1..Len(scores) |->
            LET shift(m) ==
                    IF \E k \in 1..Len(labelled) :
                            /\ ~IsNaN(labelled[k].difference)
                            /\ labelled[k].data_year = scores[i].data_year
                    THEN PivotCell(labelled, scores[i].data_year, m)
                    ELSE NaN
            IN [portfolio_id |-> scores[i].portfolio_id,
                portfolio_date |-> scores[i].portfolio_date,
                score |-> scores[i].score,
                decarbonisation_shift |-> shift("decarbonisation_shift"),
                portfolio_shift |-> shift("portfolio_shift"),
                counterparty_shift |-> shift("counterparty_shift"),
                total_shift |->
                    FAdd(FAdd(shift("decarbonisation_shift"),
                              shift("portfolio_shift")),
                         shift("counterparty_shift"))]]

\* the labelled tables of the portfolios that pass both tests, in the order
\* of the loop
LabelledPortfolios(tbl) ==
    LET ids == UniquePortfolios(tbl)
        sorted(id) == SortPortfolio(
                        SelectSeq(tbl, LAMBDA r : r.portfolio_id = id))
        analysed == SelectSeq(ids, LAMBDA id : IsAnalysed(sorted(id)))
    IN [i \in 1..Len(analysed) |-> Labelled(sorted(analysed[i]))]

\* _aggregate_over_time_results: year_results holds data after the total is
\* added, grouped the labelled tables, results the returned table; pd.concat
\* of an empty list raises
AggregateOverTimeResults ==
    /\ pc = "start"
    /\ \E add_total \in BOOLEAN :
        LET tbl == IF add_total THEN AddTotal(data) ELSE data
            labelled == LabelledPortfolios(tbl)
            appended == SelectSeq(labelled, HasAllMetrics)
        IN /\ call' = call @@ [add_total |-> add_total]
           /\ year_results' = tbl
           /\ grouped' = labelled
           /\ IF appended = <<>>
              THEN pc' = "raised" /\ results' = results
              ELSE /\ pc' = "returned"
                   /\ results' = Concat([i \in 1..Len(appended) |->
                                            OverTimeOutput(appended[i])])
    /\ UNCHANGED <<settings, data, attributes>>

OverTimeNext == AggregateOverTimeResults

SpecOverTime == OverTimeInit /\ [][OverTimeNext]_vars

-----------------------------------------------------------------------------
(* Properties of _aggregate_over_time_results *)

Aggregated2 == pc \in {"returned", "raised"} /\ "add_total" \in DOMAIN call

TrueLineAt(t, k) == k \in 1..Len(t) /\ t[k].true_lines

\* C19 as stated: of the rows of a portfolio, sorted, the row after a true
\* line carries portfolio_shift and the second row after it carries
\* counterparty_shift
C19_ShiftsAfterAnchor ==
    Aggregated2 =>
        \A n \in 1..Len(grouped) :
            LET t == grouped[n]
            IN \A k \in 1..Len(t) :
                (/\ TrueLineAt(t, k)
                 /\ k + 2 <= Len(t)
                 /\ ~TrueLineAt(t, k + 1)
                 /\ ~TrueLineAt(t, k + 2)) =>
                    /\ t[k].metric = "decarbonisation_shift"
                    /\ t[k + 1].metric = "portfolio_shift"
                    /\ t[k + 2].metric = "counterparty_shift"

\* C19: the rows of a portfolio are sorted ascending by scenario_year,
\* data_year and portfolio_date, difference is the score of a row minus the
\* score of the row before it, and of the labels the second row before a
\* true line carries counterparty_shift, otherwise the row before a true
\* line carries portfolio_shift, otherwise a true line carries
\* decarbonisation_shift, and every other row carries none
C19_ShiftsBeforeAnchor ==
    Aggregated2 =>
        \A n \in 1..Len(grouped) :
            LET t == grouped[n]
            IN \A k \in 1..Len(t) :
                /\ k > 1 =>
                    /\ SortKeyLe(t[k - 1], t[k])
                    /\ t[k].difference = FSub(t[k].score, t[k - 1].score)
                /\ t[k].true_lines =
                        (/\ t[k].scenario_year = t[k].end_year - 5
                         /\ t[k].scenario_year = t[k].data_year
                         /\ t[k].scenario_year = t[k].portfolio_date \div 100)
                /\ TrueLineAt(t, k + 2) => t[k].metric = "counterparty_shift"
                /\ (TrueLineAt(t, k + 1) /\ ~TrueLineAt(t, k + 2)) =>
                        t[k].metric = "portfolio_shift"
                /\ (/\ TrueLineAt(t, k)
                    /\ ~TrueLineAt(t, k + 1)
                    /\ ~TrueLineAt(t, k + 2)) =>
                        t[k].metric = "decarbonisation_shift"
                /\ (/\ ~TrueLineAt(t, k)
                    /\ ~TrueLineAt(t, k + 1)
                    /\ ~TrueLineAt(t, k + 2)) => t[k].metric = ""

\* a portfolio of four rows with a true line first and last, three
\* different differences, and a returned row that carries them
C19_Witness ==
    /\ pc = "returned"
    /\ \E n \in 1..Len(grouped) :
        LET t == grouped[n]
        IN /\ Len(t) = 4
           /\ t[1].true_lines /\ t[4].true_lines
           /\ ~t[2].true_lines /\ ~t[3].true_lines
           /\ t[2].difference # t[3].difference
           /\ t[3].difference # t[4].difference
           /\ t[2].difference # t[4].difference
           /\ \E i \in 1..Len(results) :
                /\ results[i].portfolio_id = t[4].portfolio_id
                /\ results[i].portfolio_date = t[4].portfolio_date
                /\ results[i].decarbonisation_shift = t[4].difference
                /\ results[i].portfolio_shift = t[3].difference
                /\ results[i].counterparty_shift = t[2].difference
                /\ IsFinite(results[i].total_shift)

\* C20: every score of the table _aggregate_over_time_results returns that
\* is not missing lies in [-limit, limit], the rows of the portfolio
\* "total" included
C20_ScoresWithinLimit ==
    pc = "returned" =>
        \A i \in 1..Len(results) :
            \/ IsNaN(results[i].score)
            \/ /\ FLe(Int2Num(-1 * call.limit), results[i].score)
               /\ FLe(results[i].score, Int2Num(call.limit))


-----------------------------------------------------------------------------
(* Further properties of _calculate_alignment_instance *)

\* the positions of the input rows of year end_year that share the grouping
\* key of row i and have a target
EndYearRows(i) ==
    {j \in 1..Len(data) :
        /\ data[j].year = call.end_year
        /\ ~IsNaN(data[j].target)
        /\ Project(data[j], GroupingCols(call.facet_col))
                = Project(data[i], GroupingCols(call.facet_col))}

-----------------------------------------------------------------------------
(* _split_loans_over_sector and _split_over_technology, as _preprocess_data  *)
(* calls them on the combined table                                          *)

MaxSplitRows == 3

SplitYear == CHOOSE v \in Vintages : \A w \in Vintages : v <= w

\* the 0.0001 added to target + production
Epsilon == Mk(1, 10000)

FillNa(x, value) == IF IsNaN(x) THEN value ELSE x

\* the rows of company c with ratio: production of (company, sector) of
\* the company indicators of all years, in the sectors in which a company
\* that is somebody's parent produces, over the company's total in them
SectorRatios(indicators, parents) ==
    LET parent_ids == {parents[i]["Parent Company ID"] : i \in 1..Len(parents)}
        of_parents == GroupBySum(
                        SelectSeq(indicators,
                                  LAMBDA r : r.company_id \in parent_ids),
                        {"company_id", "sector"}, {"production"}, TRUE)
        sectors == {of_parents[i].sector : i \in 1..Len(of_parents)}
        pacta == SelectSeq(GroupBySum(indicators, {"company_id", "sector"},
                                      {"production"}, TRUE),
                           LAMBDA r : r.sector \in sectors)
    IN [i \in 1..Len(pacta) |->
            LET production_total ==
                    SumSkipNa(Column(
                        SelectSeq(pacta, LAMBDA r :
                                    r.company_id = pacta[i].company_id),
                        "production"))
            IN [company_id |-> pacta[i].company_id,
                sector |-> pacta[i].sector,
                ratio |-> FDiv(pacta[i].production, production_total)]]

\* a split whose ratios are those of the parent companies only
SectorRatiosOfParents(indicators, parents) ==
    LET parent_ids == {parents[i]["Parent Company ID"] : i \in 1..Len(parents)}
    IN SelectSeq(SectorRatios(indicators, parents),
                 LAMBDA r : r.company_id \in parent_ids)

\* the inner merge of the loans with the ratios and the multiplication
SplitLoansOverSector(tbl, ratios) ==
    LET has_ratio(row) ==
            \E k \in 1..Len(ratios) :
                /\ ratios[k].company_id = row.company_id
                /\ ratios[k].sector = row.sector
        ratio_of(row) ==
            ratios[CHOOSE k \in 1..Len(ratios) :
                        /\ ratios[k].company_id = row.company_id
                        /\ ratios[k].sector = row.sector].ratio
        kept == SelectSeq(tbl, has_ratio)
    IN [i \in 1..Len(kept) |->
            [kept[i] EXCEPT !.loan_indicator = FMul(@, ratio_of(kept[i]))]]

TechnologyGrouper ==
    {"sector", "year", "portfolio_id", "company_id", "loan_id",
     "portfolio_date"}

ProductionPlusTarget(row, epsilon) ==
    FAdd(FAdd(FillNa(row.target, Zero), FillNa(row.production, Zero)), epsilon)

\* groupby(grouper_cols, dropna=False) sum, left merge, ratio and
\* multiplication, with the given constant in place of 0.0001
SplitOverTechnologyWith(tbl, epsilon) ==
    [i \in 1..Len(tbl) |->
        LET group == SelectSeq(tbl, LAMBDA r :
                        Project(r, TechnologyGrouper)
                            = Project(tbl[i], TechnologyGrouper))
            total == SumSkipNa([k \in 1..Len(group) |->
                                    ProductionPlusTarget(group[k], epsilon)])
        IN [tbl[i] EXCEPT !.loan_indicator =
                FMul(@, FDiv(ProductionPlusTarget(tbl[i], epsilon), total))]]

\* a split without the 0.0001
SplitOverTechnologyNoEpsilon(tbl) == SplitOverTechnologyWith(tbl, Zero)

SplitOverTechnology(tbl) == SplitOverTechnologyWith(tbl, Epsilon)

\* a row of the combined table: the loan of the company, one per company,
\* on a row of its climate data
SplitRow(company_id, st, profile) ==
    [company_id |-> company_id, sector |-> st[1], technology |-> st[2],
     year |-> SplitYear, portfolio_id |-> "pf1", loan_id |-> company_id,
     portfolio_date |-> SplitYear * 100 + 12,
     production |-> profile[1], target |-> profile[2],
     loan_indicator |-> Int2Num(60 * company_id)]

\* the loan of a company without climate data
UnmatchedLoan ==
    [company_id |-> 3, sector |-> "nan", technology |-> "nan",
     year |-> NoYear, portfolio_id |-> "pf1", loan_id |-> 3,
     portfolio_date |-> SplitYear * 100 + 12,
     production |-> NaN, target |-> NaN, loan_indicator |-> Int2Num(7)]

SplitSlots ==
    {<<1, <<"power", "coalcap">>>>, <<1, <<"power", "renewablescap">>>>,
     <<1, <<"steel", "steel">>>>, <<2, <<"power", "coalcap">>>>,
     <<2, <<"steel", "steel">>>>}

\* production and target
SplitProfiles == {<<Int2Num(3), Int2Num(1)>>, <<Zero, Zero>>, <<NaN, Zero>>}

\* the combined tables: at most one row per company, sector and technology
SplitTables(n) ==
    {LET present == SetToSeq({s \in SplitSlots : f[s] # <<>>})
     IN [i \in 1..Len(present) |->
            SplitRow(present[i][1], present[i][2], f[present[i]])] :
        f \in {g \in [SplitSlots -> SplitProfiles \cup {<<>>}] :
                Cardinality({s \in SplitSlots : g[s] # <<>>}) <= n}}

SplitIndicatorRow(company_id, sector, technology, y, production) ==
    [company_id |-> company_id, sector |-> sector, technology |-> technology,
     year |-> y, production |-> Int2Num(production)]

\* self._pacta_company_indicators[year]: rows of several years and
\* technologies
SplitIndicatorTables ==
    {<<SplitIndicatorRow(1, "power", "coalcap", SplitYear, 4),
       SplitIndicatorRow(1, "steel", "steel", SplitYear, 4),
       SplitIndicatorRow(2, "power", "coalcap", SplitYear, 2)>>,
     <<SplitIndicatorRow(1, "power", "coalcap", SplitYear, 3),
       SplitIndicatorRow(1, "power", "coalcap", SplitYear + Horizon, 1),
       SplitIndicatorRow(1, "steel", "steel", SplitYear, 0),
       SplitIndicatorRow(2, "steel", "steel", SplitYear, 6),
       SplitIndicatorRow(2, "power", "renewablescap", SplitYear, 2)>>,
     <<SplitIndicatorRow(1, "power", "coalcap", SplitYear, 0),
       SplitIndicatorRow(2, "steel", "steel", SplitYear, 5)>>}

\* self._pacta_ownership[year]: company 1 the parent of both, each its own
\* parent, company 2 alone, a parent without climate data
SplitOwnershipTables ==
    {<<OwnershipRow(1, 1, <<TRUE, FALSE, TRUE>>, 1),
       OwnershipRow(2, 1, <<TRUE, FALSE, TRUE>>, 1)>>,
     <<OwnershipRow(1, 1, <<TRUE, FALSE, TRUE>>, 1),
       OwnershipRow(2, 2, <<TRUE, FALSE, TRUE>>, 1)>>,
     <<OwnershipRow(2, 2, <<TRUE, FALSE, TRUE>>, 1)>>,
     <<OwnershipRow(1, 9, <<TRUE, FALSE, FALSE>>, 1)>>}

SplitInit ==
    /\ pc = "combined"
    /\ \E tbl \in SplitTables(MaxSplitRows), unmatched \in BOOLEAN :
        data = tbl \o (IF unmatched THEN <<UnmatchedLoan>> ELSE <<>>)
    /\ pacta_company_indicators \in
            {[y \in {SplitYear} |-> t] : t \in SplitIndicatorTables}
    /\ pacta_ownership \in
            {[y \in {SplitYear} |-> t] : t \in SplitOwnershipTables}
    /\ call = [year |-> SplitYear]
    /\ settings = <<>>
    /\ year_results = <<>>
    /\ results = <<>>
    /\ grouped = <<>>
    /\ loans = <<>>
    /\ regions = <<>>
    /\ df_pacta = <<>>
    /\ parameters_file = <<>>

\* _split_loans_over_sector(pacta_data, loan_indicator, year): grouped
\* holds the ratios, year_results the returned table
CallSplitLoansOverSector ==
    /\ pc = "combined"
    /\ \E parents \in GetParentCompanies(pacta_ownership[call.year],
                                         FALSE, TRUE) :
        /\ grouped' = SectorRatios(pacta_company_indicators[call.year],
                                   parents)
        /\ call' = call @@ [parents |-> parents]
    /\ year_results' = SplitLoansOverSector(data, grouped')
    /\ pc' = "sector_split"
    /\ UNCHANGED <<settings, data, results, attributes>>

\* _split_over_technology(pacta_data, loan_indicator) on its result
CallSplitOverTechnology ==
    /\ pc = "sector_split"
    /\ results' = SplitOverTechnology(year_results)
    /\ pc' = "technology_split"
    /\ UNCHANGED <<settings, call, data, year_results, grouped, attributes>>

SplitNext == CallSplitLoansOverSector \/ CallSplitOverTechnology

SpecSplit == SplitInit /\ [][SplitNext]_vars


-----------------------------------------------------------------------------
(* Properties of the two splits *)

\* the positions of the rows of the group of row i
TechnologyGroup(i) ==
    {j \in 1..Len(year_results) :
        Project(year_results[j], TechnologyGrouper)
            = Project(year_results[i], TechnologyGrouper)}

\* target + production + 0.0001 of row i, missing counting as 0
Amount(i) ==
    FAdd(FAdd(IF IsNaN(year_results[i].target) THEN Zero
              ELSE year_results[i].target,
              IF IsNaN(year_results[i].production) THEN Zero
              ELSE year_results[i].production),
         Mk(1, 10000))

Share(i) ==
    FDiv(Amount(i),
         SumSkipNa([k \in 1..Cardinality(TechnologyGroup(i)) |->
                        Amount(SetToSeq(TechnologyGroup(i))[k])]))

\* C22: _split_over_technology multiplies the loan indicator of each row by
\* (target + production + 0.0001) over the sum of it over the rows of its
\* group; the shares of a group sum to 1 and the loan indicators of a group
\* after the split sum to the loan indicator its rows carried before
C22_SharesSumToOne ==
    pc = "technology_split" =>
        /\ Len(results) = Len(year_results)
        /\ \A i \in 1..Len(results) :
            LET group == SetToSeq(TechnologyGroup(i))
                before == year_results[i].loan_indicator
            IN /\ results[i].loan_indicator = FMul(before, Share(i))
               /\ SumSkipNa([k \in 1..Len(group) |-> Share(group[k])])
                    = Int2Num(1)
               /\ \A k \in 1..Len(group) :
                    year_results[group[k]].loan_indicator = before
               /\ IF IsNaN(before)
                  THEN \A k \in 1..Len(group) :
                        IsNaN(results[group[k]].loan_indicator)
                  ELSE SumSkipNa([k \in 1..Len(group) |->
                            results[group[k]].loan_indicator]) = before

\* a group of two rows without target and production whose loan is halved,
\* and a group of two rows of unequal shares
C22_Witness ==
    /\ pc = "technology_split"
    /\ \E i, j \in 1..Len(results) :
        /\ i # j
        /\ j \in TechnologyGroup(i)
        /\ Amount(i) = Mk(1, 10000)
        /\ Amount(j) = Mk(1, 10000)
        /\ IsNaN(year_results[i].production)
        /\ IsFinite(year_results[i].loan_indicator)
        /\ results[i].loan_indicator
                = FDiv(year_results[i].loan_indicator, Int2Num(2))


\* the ids of the parent companies _get_parent_companies returned
ParentCompanyIds ==
    {call.parents[i]["Parent Company ID"] : i \in 1..Len(call.parents)}

\* the production of the company in the rows of the company indicators
\* that satisfy the test
CompanyProduction(company_id, Test(_)) ==
    SumSkipNa(Column(
        SelectSeq(pacta_company_indicators[call.year],
                  LAMBDA r : r.company_id = company_id /\ Test(r)),
        "production"))

\* C23: _split_loans_over_sector has ratios for parent companies only, and
\* multiplies the loan indicator of each row it returns by the production
\* of the company in the sector over the production of the company in all
\* its sectors
C23_RatiosOfParentsOnly ==
    pc = "sector_split" =>
        /\ \A k \in 1..Len(grouped) : grouped[k].company_id \in ParentCompanyIds
        /\ \A i \in 1..Len(year_results) :
            LET row == year_results[i]
                before == CHOOSE d \in SeqToSet(data) :
                            Project(d, {"company_id", "sector", "technology"})
                            = Project(row, {"company_id", "sector",
                                            "technology"})
            IN row.loan_indicator =
                FMul(before.loan_indicator,
                     FDiv(CompanyProduction(row.company_id,
                            LAMBDA r : r.sector = row.sector),
                          CompanyProduction(row.company_id,
                            LAMBDA r : TRUE)))


-----------------------------------------------------------------------------
(* Further properties of _normalise_production *)

\* the climate rows of the company and sector of the row in the combined
\* table, each counted once however many loans and portfolios carry it
OwnClimateRows(row) ==
    {Project(data[j], {"sector", "company_id", "year", "production"}) :
        j \in {k \in 1..Len(data) :
                /\ data[k].sector = row.sector
                /\ data[k].company_id = row.company_id}}

\* C24: under the method "company" the norm of every row of the output is
\* the total production of its company in its sector, whatever the number
\* of loans and portfolios of the company in the combined table; stated for
\* tables without two equal rows
C24_CompanyNormOwnTotal ==
    (/\ pc = "normalised"
     /\ call.method = "company"
     /\ \A i, j \in 1..Len(data) : data[i] = data[j] => i = j) =>
        \A i \in 1..Len(year_results) :
            year_results[i].norm =
                SumSkipNa(Column(SetToSeq(OwnClimateRows(year_results[i])),
                                 "production"))


-----------------------------------------------------------------------------
(* Further properties of _get_parent_companies *)

\* the positions of the records of the company that qualify as parent
\* records
QualifyingRecords(company) ==
    {i \in 1..Len(pacta_ownership[call.year]) :
        LET r == pacta_ownership[call.year][i]
        IN /\ r["Company ID"] = company
           /\ r["Is Parent"]
           /\ call.stop_at_weak_parents
                \/ r["Is Ultimate Listed Parent"] \/ r["Is Ultimate Parent"]}

AllRecords(company) ==
    {i \in 1..Len(pacta_ownership[call.year]) :
        pacta_ownership[call.year][i]["Company ID"] = company}

-----------------------------------------------------------------------------
(* Further properties of _reconsile_regions and _add_region *)

\* the rows of the cached table, after _add_region, whose sector is not
\* regional in the settings
NonRegionalRows ==
    {i \in 1..Len(year_results) :
        ~settings.sectoral_approach[year_results[i].sector].regional}

\* C26: after _reconsile_regions and _add_region every company-indicator row
\* of a sector whose setting regional is false has region "global"
C26_NonRegionalGlobal ==
    pc = "calculated" =>
        \A i \in NonRegionalRows : year_results[i].region = "global"


-----------------------------------------------------------------------------
(* _make_master_data and the parameters of _preprocess_data *)

\* an argument of a call with its Python type
IntArg(n) == [type |-> "int", value |-> n]

StrArg(s) == [type |-> "str", value |-> s]

\* the last three parameters of _preprocess_data in the order of its
\* signature: year, normalise_method, scenario_year
PreprocessDataParameters(year, normalise_method, scenario_year) ==
    [year |-> year, normalise_method |-> normalise_method,
     scenario_year |-> scenario_year]

\* the call of _make_master_data: its last three positional arguments are
\* data_year, scenario_year, normalise_method
MasterDataCall(data_year, scenario_year, normalise_method) ==
    PreprocessDataParameters(IntArg(data_year), IntArg(scenario_year),
                             StrArg(normalise_method))

MasterInit ==
    /\ pc = "start"
    /\ settings \in {[sectoral_approach |-> sa] : sa \in SectoralApproaches}
    /\ pacta_company_indicators \in PactaVintages
    /\ regions \in {None, RegionFile}
    /\ call \in {[normalise_method |-> m, use_region_file |-> u] :
                    m \in Methods, u \in BOOLEAN}
    /\ df_pacta = <<>>
    /\ pacta_ownership = <<>>
    /\ loans = <<>>
    /\ parameters_file = <<>>
    /\ data = <<>>
    /\ year_results = <<>>
    /\ results = <<>>
    /\ grouped = <<>>

\* _make_master_data up to the end of the first _calculate_pacta of its
\* first _preprocess_data: _add_region writes the cached table of the year
\* received, then self._scenario_data[scenario_year] is read with the
\* scenario year received, a KeyError when that is no scenario year; which
\* pair comes first is the key order of the two dicts
MakeMasterData ==
    /\ pc = "start"
    /\ \E first \in MasterDataPairs :
        LET received == MasterDataCall(first[2], first[1],
                                       call.normalise_method)
            year == received.year.value
            is_key == /\ received.scenario_year.type = "int"
                      /\ received.scenario_year.value \in Vintages
            region_table == IF call.use_region_file THEN RegionFile
                            ELSE regions
        IN /\ regions' = region_table
           /\ pacta_company_indicators' \in
                    RegionsAdded({year}, region_table)
           /\ df_pacta' =
                IF is_key
                THEN (year :>
                        CalculatePacta(pacta_company_indicators'[year],
                            ScenarioData[received.scenario_year.value],
                            settings.sectoral_approach,
                            received.scenario_year.value)) @@ df_pacta
                ELSE df_pacta
           /\ call' = [scenario_year |-> first[1], data_year |-> first[2],
                       received |-> received] @@ call
           /\ pc' = IF is_key THEN "calculated" ELSE "raised"
    /\ UNCHANGED <<settings, data, year_results, results, grouped,
                   parameters_file, pacta_ownership, loans>>

MasterNext == MakeMasterData

SpecMaster == MasterInit /\ [][MasterNext]_vars

\* C27: the entry of _make_master_data for scenario year S and data year D
\* is the result of preprocessing data year D with the targets of the
\* scenario of year S and the normalisation method of the caller:
\* _preprocess_data receives D as year, S as scenario_year and the method as
\* normalise_method, and its target calculation does not fail
C27_MasterDataEntry ==
    pc # "start" =>
        /\ call.received.year.value = call.data_year
        /\ call.received.scenario_year.type = "int"
        /\ call.received.scenario_year.value = call.scenario_year
        /\ call.received.normalise_method.type = "str"
        /\ call.received.normalise_method.value = call.normalise_method
        /\ pc # "raised"


-----------------------------------------------------------------------------
(* self._df_pacta over several calls of _calculate_pacta *)

MaxCalls == 2

CacheInit ==
    /\ pc = "constructed"
    /\ settings \in {[sectoral_approach |-> sa] : sa \in SectoralApproaches}
    /\ pacta_company_indicators \in PactaVintages
    /\ regions \in {None, RegionFile}
    /\ df_pacta = <<>>
    /\ call = <<>>
    /\ pacta_ownership = <<>>
    /\ loans = <<>>
    /\ parameters_file = <<>>
    /\ data = <<>>
    /\ year_results = <<>>
    /\ results = <<>>
    /\ grouped = <<>>

\* _calculate_pacta(year, scenario_year): _add_region writes the region
\* column of the cached table of the year, the table with the targets of
\* the scenario year is stored in self._df_pacta[year]; call lists the
\* calls made so far
CalculatePactaCall ==
    /\ Len(call) < MaxCalls
    /\ \E year \in Vintages, scenario_year \in Vintages :
        /\ pacta_company_indicators' \in RegionsAdded({year}, regions)
        /\ df_pacta' =
            (year :> CalculatePacta(pacta_company_indicators'[year],
                                    ScenarioData[scenario_year],
                                    settings.sectoral_approach,
                                    scenario_year)) @@ df_pacta
        /\ call' = Append(call, [year |-> year,
                                 scenario_year |-> scenario_year])
    /\ pc' = "calculated"
    /\ UNCHANGED <<settings, data, year_results, results, grouped,
                   parameters_file, pacta_ownership, loans, regions>>

CacheNext == CalculatePactaCall

SpecCache == CacheInit /\ [][CacheNext]_vars

\* the target table of the year for the scenario year, computed from the
\* cached company indicators
TargetTable(year, scenario_year) ==
    CalculatePacta(pacta_company_indicators[year],
                   ScenarioData[scenario_year],
                   settings.sectoral_approach, scenario_year)

\* C28: the target table is cached per (year, scenario_year): after
\* _calculate_pacta(Y, S1) and then _calculate_pacta(Y, S2) the table a
\* reader of the (Y, S1) targets finds in the cache still holds the targets
\* computed from scenario year S1
C28_CachedPerPair ==
    \A k \in 1..Len(call) :
        df_pacta[call[k].year] =
            TargetTable(call[k].year, call[k].scenario_year)


\* the portfolios of the analysed table whose loan indicator sums to more
\* than 0 and whose rows pass the cadence test on scenario_year
QualifyingPortfolios ==
    {id \in SeqToSet(UniquePortfolios(year_results)) :
        IsAnalysed(SortPortfolio(
            SelectSeq(year_results, LAMBDA r : r.portfolio_id = id)))}

\* C29: _aggregate_over_time_results returns rows only for portfolios whose
\* summed loan indicator is above 0 and whose rows pass the cadence test;
\* the other portfolios are left out without an error, whichever portfolios
\* qualify; stated for tables that have rows
C29_OthersSilentlyExcluded ==
    (Aggregated2 /\ year_results # <<>>) =>
        /\ pc = "returned"
        /\ \A i \in 1..Len(results) :
                results[i].portfolio_id \in QualifyingPortfolios


-----------------------------------------------------------------------------
(* Further properties of calculate_net_alignment *)

\* C30: the effect of use_region_file is per call: after a
\* calculate_net_alignment with use_region_file = False every row of the
\* cached company-indicator tables has region "global", whatever calls were
\* made on the instance before
C30_RegionFilePerCall ==
    (/\ pc = "returned"
     /\ call.operation = "calculate_net_alignment"
     /\ ~call.use_region_file) =>
        \A v \in Vintages :
            \A i \in 1..Len(pacta_company_indicators[v]) :
                pacta_company_indicators[v][i].region = "global"

=============================================================================
